---------------------------- MODULE Spec2Model ----------------------------
(***************************************************************************)
(* A model of pytopmod-core: the DLFL mesh (face-boundary encoding), its   *)
(* key stores and its manifold operators, translated from                  *)
(*   src/src/pytopmod/core/keystore.py, mesh.py, circular_list.py,         *)
(*   src/src/pytopmod/core/dlfl/mesh.py, operators.py, primitives.py and   *)
(*   src/src/pytopmod/core/dlfl/operations/construction.py, subdivision.py,*)
(* and of the DCEL mesh (edge-adjacency encoding) of                       *)
(*   src/src/pytopmod/core/dcel/mesh.py, operators.py, primitives.py.      *)
(*                                                                         *)
(* Vertex key "v<n>" and face key "f<n>" are modelled by the number n.     *)
(* Python lists are sequences; a Python index i is position i + 1.         *)
(***************************************************************************)
EXTENDS Integers, Sequences, FiniteSets, TLC

VARIABLES vertex_keys, face_keys, edge_keys, vertex_coordinates,
          face_vertices, vertex_faces, last, store_counter, calls, dcel_mesh

vars == <<vertex_keys, face_keys, edge_keys, vertex_coordinates,
          face_vertices, vertex_faces, last, store_counter, calls,
          dcel_mesh>>

\* ------------------------------------------------------------------ bounds
\* create_point_sphere is called at most MaxVertices times.
MaxVertices == 4

\* At most MaxFaceKeys face keys are ever handed out by the face key store.
MaxFaceKeys == 8

\* At most MaxCalls calls are made on the key store on its own.
MaxCalls == 5

\* delete() on the key store on its own is given a key "<prefix><n>" with n
\* in 1..MaxKey.
MaxKey == 3

\* The polygons that are subdivided have 2..MaxPolygon vertices.
MaxPolygon == 4

\* triangulate_face is called while the mesh has fewer than
\* MaxSubdividedVertices vertex keys.
MaxSubdividedVertices == 6

\* Positions are opaque to the topology: one abstract position is enough.
Points == {"p"}

\* ---------------------------------------------------------------- keystore
key_index_offset == 1

\* collections.Counter, in insertion order: a sequence of (key, count).
counter_has(counter, key) == \E i \in DOMAIN counter : counter[i].key = key

counter_get(counter, key) ==
    IF counter_has(counter, key)
    THEN LET i == CHOOSE j \in DOMAIN counter : counter[j].key = key
         IN  counter[i].count
    ELSE 0

counter_add(counter, key, n) ==
    IF counter_has(counter, key)
    THEN [i \in DOMAIN counter |->
            IF counter[i].key = key
            THEN [key |-> key, count |-> counter[i].count + n]
            ELSE counter[i]]
    ELSE Append(counter, [key |-> key, count |-> n])

\* Counter.total(): the sum of the counts.
RECURSIVE counter_total(_)
counter_total(counter) ==
    IF Len(counter) = 0 THEN 0
    ELSE counter[Len(counter)].count
         + counter_total(SubSeq(counter, 1, Len(counter) - 1))

\* Counter.elements(): each key as many times as its count, in insertion
\* order; a key whose count is less than one is left out.
RECURSIVE counter_elements(_)
counter_elements(counter) ==
    IF Len(counter) = 0 THEN <<>>
    ELSE LET head == counter[1]
         IN  [i \in 1..(IF head.count > 0 THEN head.count ELSE 0) |-> head.key]
             \o counter_elements(Tail(counter))

\* new() that numbers the key after the count of the store, not after the
\* number of keys the Counter has seen.
keystore_new_after_count(counter) ==
    LET key == counter_total(counter) + key_index_offset
    IN  [counter |-> counter_add(counter, key, 1), key |-> key]

keystore_new(counter) ==
    LET key == Len(counter) + key_index_offset
    IN  [counter |-> counter_add(counter, key, 1), key |-> key]

\* __iter__ over the Counter itself: every key it has seen, live or not.
keystore_iter_seen(counter) == [i \in DOMAIN counter |-> counter[i].key]

\* __iter__: iter(self._counter.elements()).
keystore_iter(counter) == counter_elements(counter)

keystore_delete(counter, key) == counter_add(counter, key, -1)

keystore_contains(counter, key) == counter_get(counter, key) > 0

\* __len__: self._counter.total().
keystore_len(counter) == counter_total(counter)

\* count(): self.__len__().
keystore_count(counter) == keystore_len(counter)

\* The keys a store holds (membership is true for them).
LiveKeys(counter) ==
    {counter[i].key : i \in {j \in DOMAIN counter : counter[j].count > 0}}

\* ----------------------------------------------------------- circular_list
Has(list_, item) == \E i \in DOMAIN list_ : list_[i] = item

\* list_.index(item): the first Python index of item (item is in list_).
index(list_, item) ==
    (CHOOSE i \in DOMAIN list_ :
        /\ list_[i] = item
        /\ \A j \in 1..(i - 1) : list_[j] # item) - 1

tuples(list_, length) ==
    [i \in 1..Len(list_) |->
        [offset \in 1..length |->
            list_[(((i - 1) + (offset - 1)) % Len(list_)) + 1]]]

pairs(list_) == tuples(list_, 2)

circulated_to(list_, idx) ==
    LET k == (idx + 1) % Len(list_)
    IN  SubSeq(list_, k + 1, Len(list_)) \o SubSeq(list_, 1, k)

\* circulated_to_item that returns the list as it is.
circulated_to_item_unrotated(list_, item) == list_

circulated_to_item(list_, item) == circulated_to(list_, index(list_, item))

circulated_to_pair(list_, pair) ==
    circulated_to(list_, index(pairs(list_), pair) + 1)

split_at(list_, idx) ==
    LET k == idx % Len(list_)
    IN  <<SubSeq(list_, 1, k), SubSeq(list_, k + 1, Len(list_))>>

split_at_item(list_, item) == split_at(list_, index(list_, item) + 1)

split_at_pair(list_, pair) == split_at(list_, index(pairs(list_), pair) + 2)

next_item(list_, item) ==
    list_[((index(list_, item) + 1) % Len(list_)) + 1]

previous_item(list_, item) ==
    list_[((index(list_, item) - 1) % Len(list_)) + 1]

\* list_[:-1]
DropLast(list_) == SubSeq(list_, 1, Len(list_) - 1)

Range(list_) == {list_[i] : i \in DOMAIN list_}

\* -------------------------------------------------------------------- mesh
\* The DLFLMesh object as a record of its fields.
Mesh ==
    [vertex_keys |-> vertex_keys, face_keys |-> face_keys,
     edge_keys |-> edge_keys, vertex_coordinates |-> vertex_coordinates,
     face_vertices |-> face_vertices, vertex_faces |-> vertex_faces]

EmptyMesh ==
    [vertex_keys |-> <<>>, face_keys |-> <<>>, edge_keys |-> {},
     vertex_coordinates |-> <<>>, face_vertices |-> <<>>,
     vertex_faces |-> <<>>]

\* d[k] = v on a dict held as a function.
DictSet(d, k, v) == [x \in DOMAIN d \cup {k} |-> IF x = k THEN v ELSE d[x]]

\* del d[k]
DictDel(d, k) == [x \in DOMAIN d \ {k} |-> d[x]]

create_vertex(m, position) ==
    LET n == keystore_new(m.vertex_keys)
    IN  [mesh |-> [m EXCEPT
                     !.vertex_keys = n.counter,
                     !.vertex_coordinates = DictSet(@, n.key, position),
                     !.vertex_faces = DictSet(@, n.key, {})],
         key |-> n.key]

create_face(m) ==
    LET n == keystore_new(m.face_keys)
    IN  [mesh |-> [m EXCEPT
                     !.face_keys = n.counter,
                     !.face_vertices = DictSet(@, n.key, <<>>)],
         key |-> n.key]

\* delete_face without the key store's delete: the dict entry goes, the key
\* stays a member of face_keys.
delete_face_keeps_key(m, face_key) ==
    [m EXCEPT !.face_vertices = DictDel(@, face_key)]

delete_face(m, face_key) ==
    [m EXCEPT !.face_keys = keystore_delete(@, face_key),
              !.face_vertices = DictDel(@, face_key)]

create_edge(m, vertex_1_key, vertex_2_key) ==
    [m EXCEPT !.edge_keys = @ \cup {{vertex_1_key, vertex_2_key}}]

mesh_delete_edge(m, edge_key) == [m EXCEPT !.edge_keys = @ \ {edge_key}]

\* --------------------------------------------------------------- operators
Corner(vertex_key, face_key, edge_1_key, edge_2_key) ==
    [vertex_key |-> vertex_key, face_key |-> face_key,
     edge_1_key |-> edge_1_key, edge_2_key |-> edge_2_key]

\* A (face, vertex) pair corner_from_face_vertex accepts: the face is in the
\* face_vertices dict and the vertex is on its boundary.
IsCornerOf(m, face_key, vertex_key) ==
    /\ face_key \in DOMAIN m.face_vertices
    /\ Has(m.face_vertices[face_key], vertex_key)

corner_from_face_vertex(m, face_key, vertex_key) ==
    LET previous_vertex_key ==
            previous_item(m.face_vertices[face_key], vertex_key)
        next_vertex_key ==
            previous_item(m.face_vertices[face_key], vertex_key)
    IN  Corner(vertex_key, face_key,
               {vertex_key, next_vertex_key},
               {previous_vertex_key, vertex_key})

face_edges(m, face_key) ==
    {{pr[1], pr[2]} : pr \in Range(pairs(m.face_vertices[face_key]))}

\* face_trace over the pairs of the edge list read as a plain list, not a
\* circular one: the corner that closes the boundary is missing.
face_trace_open(m, face_key) ==
    LET edge_pairs == DropLast(pairs(pairs(m.face_vertices[face_key])))
    IN  [i \in DOMAIN edge_pairs |->
            LET edge_2_vertex_keys == edge_pairs[i][1]
                edge_1_vertex_keys == edge_pairs[i][2]
            IN  Corner(edge_1_vertex_keys[1], face_key,
                       {edge_1_vertex_keys[1], edge_1_vertex_keys[2]},
                       {edge_2_vertex_keys[1], edge_2_vertex_keys[2]})]

\* The corners face_trace yields, in order.
face_trace(m, face_key) ==
    LET edge_pairs == pairs(pairs(m.face_vertices[face_key]))
    IN  [i \in DOMAIN edge_pairs |->
            LET edge_2_vertex_keys == edge_pairs[i][1]
                edge_1_vertex_keys == edge_pairs[i][2]
            IN  Corner(edge_1_vertex_keys[1], face_key,
                       {edge_1_vertex_keys[1], edge_1_vertex_keys[2]},
                       {edge_2_vertex_keys[1], edge_2_vertex_keys[2]})]

\* vertex_faces[v].discard(old) for each old, then .add(new), for each
\* vertex of a boundary.
ReplaceFaces(vf, boundary, old_face_keys, new_face_key) ==
    [v \in DOMAIN vf |->
        IF v \in Range(boundary)
        THEN (vf[v] \ old_face_keys) \cup {new_face_key}
        ELSE vf[v]]

\* What an operator call does: the mesh it leaves, what it returns, and the
\* exception it raises ("none" when it returns).
Outcome(m, ret, raised) == [mesh |-> m, ret |-> ret, raised |-> raised]

\* A call that returns a corner for a vertex that is not on the face.
corner_from_face_vertex_lenient(m, face_key, vertex_key) ==
    IF face_key \notin DOMAIN m.face_vertices
    THEN Outcome(m, <<>>, "KeyError")
    ELSE IF ~Has(m.face_vertices[face_key], vertex_key)
    THEN Outcome(m, Corner(vertex_key, face_key, {vertex_key}, {vertex_key}),
                 "none")
    ELSE Outcome(m, corner_from_face_vertex(m, face_key, vertex_key), "none")

\* A call of corner_from_face_vertex with any arguments:
\* mesh.face_vertices[face_key] raises KeyError for a face that is not in
\* the dict, list_.index(item) in previous_item raises ValueError for a
\* vertex that is not in the list; nothing is assigned.
corner_from_face_vertex_call(m, face_key, vertex_key) ==
    IF face_key \notin DOMAIN m.face_vertices
    THEN Outcome(m, <<>>, "KeyError")
    ELSE IF ~Has(m.face_vertices[face_key], vertex_key)
    THEN Outcome(m, <<>>, "ValueError")
    ELSE Outcome(m, corner_from_face_vertex(m, face_key, vertex_key), "none")

\* create_point_sphere without vertex_faces[vertex_key].add(face_key).
create_point_sphere_unlinked(m, position) ==
    LET cv == create_vertex(m, position)
        cf == create_face(cv.mesh)
        vertex_key == cv.key
        face_key == cf.key
        m1 == [cf.mesh EXCEPT
                 !.face_vertices[face_key] = Append(@, vertex_key)]
        m2 == create_edge(m1, vertex_key, vertex_key)
    IN  Outcome(m2, corner_from_face_vertex(m2, face_key, vertex_key), "none")

create_point_sphere(m, position) ==
    LET cv == create_vertex(m, position)
        cf == create_face(cv.mesh)
        vertex_key == cv.key
        face_key == cf.key
        m1 == [cf.mesh EXCEPT
                 !.face_vertices[face_key] = Append(@, vertex_key),
                 !.vertex_faces[vertex_key] = @ \cup {face_key}]
        m2 == create_edge(m1, vertex_key, vertex_key)
    IN  Outcome(m2, corner_from_face_vertex(m2, face_key, vertex_key), "none")

\* cofacial_boundaries without vertex_1 appended to the second boundary.
cofacial_boundaries_short(old_face_vertices, vertex_1_key, vertex_2_key) ==
    LET split == split_at_item(
                     circulated_to_item(old_face_vertices, vertex_2_key),
                     vertex_1_key)
    IN  <<Append(split[1], vertex_2_key), split[2]>>

\* The boundaries of the two faces of a cofacial insertion: the old boundary
\* circulated to end with vertex_2 and split at vertex_1, vertex_2 appended
\* to the first part and vertex_1 to the second.
cofacial_boundaries(old_face_vertices, vertex_1_key, vertex_2_key) ==
    LET split == split_at_item(
                     circulated_to_item(old_face_vertices, vertex_2_key),
                     vertex_1_key)
    IN  <<Append(split[1], vertex_2_key), Append(split[2], vertex_1_key)>>

insert_edge_cofacial(m, corner_1, corner_2) ==
    LET old_face_key == corner_1.face_key
        cf1 == create_face(m)
        cf2 == create_face(cf1.mesh)
        new_face_1_key == cf1.key
        new_face_2_key == cf2.key
        split == cofacial_boundaries(m.face_vertices[old_face_key],
                                     corner_1.vertex_key, corner_2.vertex_key)
        new_face_1_vertices == split[1]
        new_face_2_vertices == split[2]
        m1 == [cf2.mesh EXCEPT
                 !.face_vertices[new_face_1_key] = new_face_1_vertices,
                 !.face_vertices[new_face_2_key] = new_face_2_vertices]
        m2 == [m1 EXCEPT !.vertex_faces =
                 ReplaceFaces(@, new_face_1_vertices, {old_face_key},
                              new_face_1_key)]
        m3 == [m2 EXCEPT !.vertex_faces =
                 ReplaceFaces(@, new_face_2_vertices, {old_face_key},
                              new_face_2_key)]
        m4 == delete_face(m3, old_face_key)
        m5 == create_edge(m4, corner_1.vertex_key, corner_2.vertex_key)
    IN  Outcome(m5, <<new_face_1_key, new_face_2_key>>, "none")

\* non_cofacial_boundary that appends both vertices whatever the faces are.
non_cofacial_boundary_always(old_1, old_2, vertex_1_key, vertex_2_key) ==
    circulated_to_item(old_1, vertex_1_key)
    \o circulated_to_item(old_2, previous_item(old_2, vertex_2_key))
    \o <<vertex_2_key>>
    \o <<vertex_1_key>>

\* The boundary of the face of a non-cofacial insertion, from the boundaries
\* old_1 and old_2 of the two old faces.
non_cofacial_boundary(old_1, old_2, vertex_1_key, vertex_2_key) ==
    circulated_to_item(old_1, vertex_1_key)
    \o circulated_to_item(old_2, previous_item(old_2, vertex_2_key))
    \o (IF Len(old_2) > 1 THEN <<vertex_2_key>> ELSE <<>>)
    \o (IF Len(old_1) > 1 THEN <<vertex_1_key>> ELSE <<>>)

insert_edge_non_cofacial(m, corner_1, corner_2) ==
    LET old_face_1_vertices == m.face_vertices[corner_1.face_key]
        old_face_2_vertices == m.face_vertices[corner_2.face_key]
        cf == create_face(m)
        new_face_key == cf.key
        new_face_vertex_keys ==
            non_cofacial_boundary(old_face_1_vertices, old_face_2_vertices,
                                  corner_1.vertex_key, corner_2.vertex_key)
        m1 == [cf.mesh EXCEPT
                 !.face_vertices[new_face_key] = new_face_vertex_keys]
        m2 == [m1 EXCEPT !.vertex_faces =
                 ReplaceFaces(@, new_face_vertex_keys,
                              {corner_1.face_key, corner_2.face_key},
                              new_face_key)]
        m3 == delete_face(m2, corner_1.face_key)
        m4 == delete_face(m3, corner_2.face_key)
        m5 == create_edge(m4, corner_1.vertex_key, corner_2.vertex_key)
    IN  Outcome(m5, <<new_face_key, new_face_key>>, "none")

insert_edge(m, corner_1, corner_2) ==
    IF corner_1.face_key = corner_2.face_key
    THEN insert_edge_cofacial(m, corner_1, corner_2)
    ELSE insert_edge_non_cofacial(m, corner_1, corner_2)

\* new_face_vertices.pop() when the face is not a point-sphere.
PopUnlessPointSphere(list_) ==
    IF Len(list_) > 1 THEN DropLast(list_) ELSE list_

delete_edge_cofacial(m, corner_1, corner_2) ==
    LET old_face_key == corner_1.face_key
        v1 == corner_1.vertex_key
        v2 == corner_2.vertex_key
        cf1 == create_face(m)
        cf2 == create_face(cf1.mesh)
        new_face_1_key == cf1.key
        new_face_2_key == cf2.key
        old_vertices == m.face_vertices[old_face_key]
    IN  IF ~Has(pairs(old_vertices), <<v1, v2>>)
        THEN Outcome(cf2.mesh, <<>>, "ValueError")
        ELSE
        LET circulated == circulated_to_pair(old_vertices, <<v1, v2>>)
        IN  IF ~Has(pairs(circulated), <<v2, v1>>)
            THEN Outcome(cf2.mesh, <<>>, "ValueError")
            ELSE
            LET split == split_at_pair(circulated, <<v2, v1>>)
                new_face_1_vertices == PopUnlessPointSphere(split[1])
                new_face_2_vertices == PopUnlessPointSphere(split[2])
                m1 == [cf2.mesh EXCEPT
                         !.face_vertices[new_face_1_key] = new_face_1_vertices,
                         !.face_vertices[new_face_2_key] = new_face_2_vertices]
                m2 == [m1 EXCEPT !.vertex_faces =
                         ReplaceFaces(@, new_face_1_vertices, {old_face_key},
                                      new_face_1_key)]
                m3 == [m2 EXCEPT !.vertex_faces =
                         ReplaceFaces(@, new_face_2_vertices, {old_face_key},
                                      new_face_2_key)]
                m4 == delete_face(m3, old_face_key)
            IN  IF {v1, v2} \notin m4.edge_keys
                THEN Outcome(m4, <<>>, "KeyError")
                ELSE Outcome(mesh_delete_edge(m4, {v1, v2}),
                             <<new_face_1_key, new_face_2_key>>, "none")

\* merged_boundary that keeps vertex_2 at the end of the second part.
merged_boundary_keeps_vertex_2(old_1, old_2, vertex_1_key, vertex_2_key) ==
    DropLast(circulated_to_item(old_1, vertex_1_key))
    \o circulated_to_item(old_2, vertex_2_key)

\* The boundary of the face of a non-cofacial deletion: the first boundary
\* circulated to vertex_1, without vertex_1, then the second circulated to
\* vertex_2, without vertex_2.
merged_boundary(old_1, old_2, vertex_1_key, vertex_2_key) ==
    DropLast(circulated_to_item(old_1, vertex_1_key))
    \o DropLast(circulated_to_item(old_2, vertex_2_key))

delete_edge_non_cofacial(m, corner_1, corner_2) ==
    LET v1 == corner_1.vertex_key
        v2 == corner_2.vertex_key
        cf == create_face(m)
        new_face_key == cf.key
        old_face_1_vertices == m.face_vertices[corner_1.face_key]
        old_face_2_vertices == m.face_vertices[corner_2.face_key]
        new_face_vertex_keys ==
            merged_boundary(old_face_1_vertices, old_face_2_vertices, v1, v2)
        m1 == [cf.mesh EXCEPT
                 !.face_vertices[new_face_key] = new_face_vertex_keys]
        m2 == [m1 EXCEPT !.vertex_faces =
                 ReplaceFaces(@, new_face_vertex_keys,
                              {corner_1.face_key, corner_2.face_key},
                              new_face_key)]
        m3 == delete_face(m2, corner_1.face_key)
        m4 == delete_face(m3, corner_2.face_key)
    IN  IF {v1, v2} \notin m4.edge_keys
        THEN Outcome(m4, <<>>, "KeyError")
        ELSE Outcome(mesh_delete_edge(m4, {v1, v2}),
                     <<new_face_key, new_face_key>>, "none")

delete_edge(m, corner_1, corner_2) ==
    IF corner_1.face_key = corner_2.face_key
    THEN delete_edge_cofacial(m, corner_1, corner_2)
    ELSE delete_edge_non_cofacial(m, corner_1, corner_2)

\* ------------------------------------------------------------ vertex_trace
\* A run of the vertex_trace generator: the corners it yields and how it
\* ends ("none": it returns).  The start face and each next face are taken
\* from an unordered set, so vertex_trace(m, v) is the set of possible runs.
TraceRun(corners, raised) == [corners |-> corners, raised |-> raised]

\* The analysis stops following a run that has yielded this many corners
\* without closing.
TraceCap(m) == 2 * Cardinality(DOMAIN m.face_vertices)

\* The orders in which iterating a set may produce its elements.  A set
\* that is not modified is iterated in the same order every time.
RECURSIVE IterationOrders(_)
IterationOrders(set) ==
    IF set = {} THEN {<<>>}
    ELSE UNION {{<<x>> \o order : order \in IterationOrders(set \ {x})}
                  : x \in set}

\* next(face_key for face_key in vertex_faces[v] if corner.edge_1_key in
\* list(face_edges(mesh, face_key)) and face_key != corner.face_key), with
\* vertex_faces[v] iterated in the given order from position i:
\* face_edges raises KeyError on a deleted face, and the exhausted
\* generator expression raises StopIteration, which the enclosing
\* generator turns into RuntimeError.
RECURSIVE next_face(_, _, _, _)
next_face(m, order, i, corner) ==
    IF i > Len(order) THEN Outcome(m, 0, "RuntimeError")
    ELSE IF order[i] \notin DOMAIN m.face_vertices
    THEN Outcome(m, 0, "KeyError")
    ELSE IF /\ corner.edge_1_key \in face_edges(m, order[i])
            /\ order[i] # corner.face_key
    THEN Outcome(m, order[i], "none")
    ELSE next_face(m, order, i + 1, corner)

\* corner_from_face_vertex(mesh, next(...), vertex_key).
next_corner(m, order, vertex_key, corner) ==
    LET face == next_face(m, order, 1, corner)
    IN  IF face.raised # "none" THEN face
        ELSE corner_from_face_vertex_call(m, face.ret, vertex_key)

\* The while loop: yield current_corner and look up the next one until it
\* equals start_corner.
RECURSIVE vertex_trace_loop(_, _, _, _, _, _)
vertex_trace_loop(m, order, vertex_key, start_corner, current, yielded) ==
    IF current.raised # "none" THEN TraceRun(yielded, current.raised)
    ELSE IF current.ret = start_corner THEN TraceRun(yielded, "none")
    ELSE IF Len(yielded) >= TraceCap(m) THEN TraceRun(yielded, "unbounded")
    ELSE vertex_trace_loop(m, order, vertex_key, start_corner,
                           next_corner(m, order, vertex_key, current.ret),
                           Append(yielded, current.ret))

\* One run of vertex_trace, with vertex_faces[v] iterated in the given
\* order: the start corner is on its first face.
vertex_trace_run(m, vertex_key, order) ==
    IF order = <<>> THEN TraceRun(<<>>, "RuntimeError")
    ELSE LET start == corner_from_face_vertex_call(m, order[1], vertex_key)
         IN  IF start.raised # "none" THEN TraceRun(<<>>, start.raised)
             ELSE vertex_trace_loop(
                      m, order, vertex_key, start.ret,
                      next_corner(m, order, vertex_key, start.ret),
                      <<start.ret>>)

\* vertex_trace(mesh, vertex_key): its runs, one per iteration order of
\* the rotation set.
vertex_trace(m, vertex_key) ==
    {vertex_trace_run(m, vertex_key, order)
       : order \in IterationOrders(m.vertex_faces[vertex_key])}

\* ------------------------------------------------------------ construction
\* construct_mesh(points, faces).  With no point, vertices is empty: any
\* index of a face raises IndexError and with no index the queue is empty
\* and the empty mesh is returned.  With a point, the first
\* create_point_sphere(mesh, point)[0] subscripts a Corner, which is a
\* slots dataclass without __getitem__: TypeError, before any face is read.
construct_mesh(points, faces) ==
    IF Len(points) = 0
    THEN IF \E i \in DOMAIN faces : Len(faces[i]) > 0
         THEN Outcome(EmptyMesh, <<>>, "IndexError")
         ELSE Outcome(EmptyMesh, <<>>, "none")
    ELSE Outcome(create_point_sphere(EmptyMesh, points[1]).mesh, <<>>,
                 "TypeError")

\* The 4 points and 4 triangles of the tetrahedron scenario.
TetrahedronPoints == [i \in 1..4 |-> "p"]

TetrahedronFaces == <<<<0, 1, 2>>, <<0, 2, 3>>, <<0, 3, 1>>, <<1, 3, 2>>>>

\* The inputs construct_mesh is run on.
ConstructInputs ==
    { [points |-> TetrahedronPoints, faces |-> TetrahedronFaces],
      [points |-> <<"p", "p", "p">>, faces |-> <<<<0, 1, 2>>, <<2, 1, 0>>>>],
      [points |-> <<>>, faces |-> <<>>],
      [points |-> <<>>, faces |-> <<<<>>>>],
      [points |-> <<>>, faces |-> <<<<0, 1, 2>>>>] }

\* ------------------------------------------------------------- subdivision
\* geometry.midpoint of two positions: positions are abstract.
midpoint(point_1, point_2) == "p"

\* subdivide_edge, last statements: the second insertion, from the new
\* vertex on the first face of the first insertion to vertex 2 on its
\* second face; the corner lookups are evaluated in argument order.
subdivide_second_insertion(insertion_1, new_vertex_key, from_new, to_2) ==
    IF from_new.raised # "none"
    THEN Outcome(insertion_1.mesh, <<>>, from_new.raised)
    ELSE IF to_2.raised # "none"
    THEN Outcome(insertion_1.mesh, <<>>, to_2.raised)
    ELSE LET insertion_2 == insert_edge(insertion_1.mesh, from_new.ret, to_2.ret)
         IN  Outcome(insertion_2.mesh, <<new_vertex_key, insertion_2.ret>>, "none")

\* subdivide_edge, after the first insertion returned its face keys.
subdivide_after_insertion(insertion_1, new_vertex_key, vertex_2_key) ==
    subdivide_second_insertion(
        insertion_1, new_vertex_key,
        corner_from_face_vertex_call(insertion_1.mesh, insertion_1.ret[1],
                                     new_vertex_key),
        corner_from_face_vertex_call(insertion_1.mesh, insertion_1.ret[2],
                                     vertex_2_key))

\* subdivide_edge, the first insertion: from vertex 1 on the first face the
\* deletion returned to the new point-sphere.
subdivide_first_insertion(sphere, from_1, vertex_2_key) ==
    IF from_1.raised # "none"
    THEN Outcome(sphere.mesh, <<>>, from_1.raised)
    ELSE subdivide_after_insertion(
             insert_edge(sphere.mesh, from_1.ret, sphere.ret),
             sphere.ret.vertex_key, vertex_2_key)

\* subdivide_edge, after delete_edge returned: the point-sphere at the
\* midpoint of the edge.
subdivide_after_deletion(del, vertex_1_key, vertex_2_key) ==
    IF del.raised # "none" THEN del
    ELSE LET sphere == create_point_sphere(
                          del.mesh,
                          midpoint(del.mesh.vertex_coordinates[vertex_1_key],
                                   del.mesh.vertex_coordinates[vertex_2_key]))
         IN  subdivide_first_insertion(
                 sphere,
                 corner_from_face_vertex_call(sphere.mesh, del.ret[1],
                                              vertex_1_key),
                 vertex_2_key)

\* subdivide_edge(mesh, corner_1, corner_2): delete the edge, create a
\* point-sphere at its midpoint, insert an edge from vertex 1 to the
\* point-sphere, then an edge from the new vertex to vertex 2.  An
\* exception of delete_edge or of corner_from_face_vertex ends the call
\* where it is raised.
subdivide_edge(m, corner_1, corner_2) ==
    subdivide_after_deletion(delete_edge(m, corner_1, corner_2),
                             corner_1.vertex_key, corner_2.vertex_key)

\* geometry.centroid of the positions of a face: positions are abstract.
centroid(positions) == "p"

\* The pick that always continues on the first face of the insertion.
next_insert_face_first(m, insert_face_keys) ==
    [insert_face_key |-> insert_face_keys[1], result |-> insert_face_keys[2]]

\* "Pick the face with the most vertices for the next insertion": of the
\* two faces the last insertion returned, the first when it is strictly
\* longer, else the second; the other one is a result face.
next_insert_face(m, insert_face_keys) ==
    IF Len(m.face_vertices[insert_face_keys[1]])
           > Len(m.face_vertices[insert_face_keys[2]])
    THEN [insert_face_key |-> insert_face_keys[1],
          result |-> insert_face_keys[2]]
    ELSE [insert_face_key |-> insert_face_keys[2],
          result |-> insert_face_keys[1]]

\* for vertex_key in face_vertex_keys[1:], from position i on, and the
\* return.  corner_from_face_vertex raises KeyError for a face that is not
\* in face_vertices and ValueError for a vertex that is not on the face.
RECURSIVE triangulate_loop(_, _, _, _, _, _, _)
triangulate_loop(m, face_vertex_keys, i, centroid_key, insert_face_key, insert_face_keys, result_face_keys) ==
    IF i > Len(face_vertex_keys)
    THEN Outcome(m, <<centroid_key,
                      result_face_keys \cup Range(insert_face_keys)>>, "none")
    ELSE IF insert_face_key \notin DOMAIN m.face_vertices
    THEN Outcome(m, <<>>, "KeyError")
    ELSE IF \/ ~Has(m.face_vertices[insert_face_key], face_vertex_keys[i])
            \/ ~Has(m.face_vertices[insert_face_key], centroid_key)
    THEN Outcome(m, <<>>, "ValueError")
    ELSE LET ins == insert_edge(
                        m,
                        corner_from_face_vertex(m, insert_face_key,
                                                face_vertex_keys[i]),
                        corner_from_face_vertex(m, insert_face_key,
                                                centroid_key))
             pick == next_insert_face(ins.mesh, ins.ret)
         IN  triangulate_loop(ins.mesh, face_vertex_keys, i + 1, centroid_key,
                              pick.insert_face_key, ins.ret,
                              result_face_keys \cup {pick.result})

\* triangulate_face(mesh, face_key): a point-sphere at the centroid, an edge
\* from the first vertex of the face to it, then one edge per remaining
\* vertex.  The centroid of a face without vertices divides by zero.
triangulate_face(m, face_key) ==
    IF face_key \notin DOMAIN m.face_vertices
    THEN Outcome(m, <<>>, "KeyError")
    ELSE LET face_vertex_keys == m.face_vertices[face_key]
         IN  IF Len(face_vertex_keys) = 0
             THEN Outcome(m, <<>>, "ZeroDivisionError")
             ELSE
             LET sphere == create_point_sphere(
                               m, centroid([i \in DOMAIN face_vertex_keys |->
                                     m.vertex_coordinates[face_vertex_keys[i]]]))
                 centroid_corner == sphere.ret
                 ins == insert_edge(
                            sphere.mesh,
                            corner_from_face_vertex(sphere.mesh, face_key,
                                                    face_vertex_keys[1]),
                            centroid_corner)
             IN  triangulate_loop(ins.mesh, face_vertex_keys, 2,
                                  centroid_corner.vertex_key, ins.ret[1],
                                  <<>>, {})

\* -------------------------------------------------------------------- dcel
\* dcel/mesh.py: the edge-adjacency encoding.  Edge key "e<n>" is the number
\* n; None is 0.
None == 0

\* EdgeNode is a dataclass with slots: these six fields and no other.
EdgeNode(vertex_1_key, vertex_2_key, face_1_key, face_2_key, edge_1_key, edge_2_key) ==
    [vertex_1_key |-> vertex_1_key, vertex_2_key |-> vertex_2_key,
     face_1_key |-> face_1_key, face_2_key |-> face_2_key,
     edge_1_key |-> edge_1_key, edge_2_key |-> edge_2_key]

\* Mesh(): the base mesh's key stores and coordinates, edge_keys a KeyStore
\* and edge_nodes an empty dict.
EmptyDcelMesh ==
    [vertex_keys |-> <<>>, face_keys |-> <<>>, edge_keys |-> <<>>,
     vertex_coordinates |-> <<>>, edge_nodes |-> <<>>]

dcel_create_vertex(m, position) ==
    LET n == keystore_new(m.vertex_keys)
    IN  [mesh |-> [m EXCEPT
                     !.vertex_keys = n.counter,
                     !.vertex_coordinates = DictSet(@, n.key, position)],
         key |-> n.key]

dcel_create_face(m) ==
    LET n == keystore_new(m.face_keys)
    IN  [mesh |-> [m EXCEPT !.face_keys = n.counter], key |-> n.key]

dcel_create_edge(m, vertex_1_key, vertex_2_key, face_1_key, face_2_key, edge_1_key, edge_2_key) ==
    LET n == keystore_new(m.edge_keys)
    IN  [mesh |-> [m EXCEPT
                     !.edge_keys = n.counter,
                     !.edge_nodes =
                         DictSet(@, n.key,
                                 EdgeNode(vertex_1_key, vertex_2_key,
                                          face_1_key, face_2_key,
                                          edge_1_key, edge_2_key))],
         key |-> n.key]

\* The keys of edge_nodes in the order of the dict, which is the order in
\* which create_edge made them.
edge_nodes_keys(m) ==
    LET InDict(key) == key \in DOMAIN m.edge_nodes
    IN  SelectSeq([i \in DOMAIN m.edge_keys |-> m.edge_keys[i].key], InDict)

vertex_edges(m, vertex_key) ==
    LET AtVertex(edge_key) ==
            vertex_key \in {m.edge_nodes[edge_key].vertex_1_key,
                            m.edge_nodes[edge_key].vertex_2_key}
    IN  SelectSeq(edge_nodes_keys(m), AtVertex)

dcel_face_edges(m, face) ==
    LET OnFace(edge_key) ==
            face \in {m.edge_nodes[edge_key].face_1_key,
                      m.edge_nodes[edge_key].face_2_key}
    IN  SelectSeq(edge_nodes_keys(m), OnFace)

\* dcel/operators.py.  node.<name>: a name that is not a slot of the node
\* raises AttributeError.
attribute(node, name) ==
    IF name \in DOMAIN node
    THEN [ret |-> node[name], raised |-> "none"]
    ELSE [ret |-> None, raised |-> "AttributeError"]

\* edge_node.vertex_1_next_key if edge_node.vertex_1_key == vertex_key else
\* edge_node.vertex_2_next_key
vertex_next_key(edge_node, vertex_key) ==
    attribute(edge_node,
              IF edge_node.vertex_1_key = vertex_key
              THEN "vertex_1_next_key" ELSE "vertex_2_next_key")

\* edge_node.vertex_1_next_key if edge_node.face_1_key == face_key else
\* edge_node.vertex_2_next_key
face_next_key(edge_node, face_key) ==
    attribute(edge_node,
              IF edge_node.face_1_key = face_key
              THEN "vertex_1_next_key" ELSE "vertex_2_next_key")

\* What a trace generator does when it is run to its end: the edges it
\* yields and the exception that ends it ("none": it returns).
EdgeRun(edges, raised) == [edges |-> edges, raised |-> raised]

\* A trace over more edges than the mesh has nodes has entered a cycle
\* that does not hold its start edge: it never ends.
DcelTraceCap(m) == Len(m.edge_keys)

next_key(edge_node, around, key) ==
    IF around = "vertex"
    THEN vertex_next_key(edge_node, key) ELSE face_next_key(edge_node, key)

\* The while loop of vertex_trace (around = "vertex") and of face_trace
\* (around = "face"): edge_key is the key just read, not yet yielded.
RECURSIVE dcel_trace_loop(_, _, _, _, _, _)
dcel_trace_loop(m, around, key, start_edge_key, edge_key, yielded) ==
    IF edge_key = start_edge_key THEN EdgeRun(yielded, "none")
    ELSE IF Len(yielded) > DcelTraceCap(m) THEN EdgeRun(yielded, "unbounded")
    ELSE IF edge_key \notin DOMAIN m.edge_nodes
    THEN EdgeRun(Append(yielded, edge_key), "KeyError")
    ELSE IF next_key(m.edge_nodes[edge_key], around, key).raised # "none"
    THEN EdgeRun(Append(yielded, edge_key),
                 next_key(m.edge_nodes[edge_key], around, key).raised)
    ELSE dcel_trace_loop(m, around, key, start_edge_key,
                         next_key(m.edge_nodes[edge_key], around, key).ret,
                         Append(yielded, edge_key))

\* The trace from its start edge on: the start edge is yielded, then its
\* node is looked up and its next key read.
dcel_trace_from(m, around, key, start_edge_key) ==
    IF start_edge_key \notin DOMAIN m.edge_nodes
    THEN EdgeRun(<<start_edge_key>>, "KeyError")
    ELSE IF next_key(m.edge_nodes[start_edge_key], around, key).raised # "none"
    THEN EdgeRun(<<start_edge_key>>,
                 next_key(m.edge_nodes[start_edge_key], around, key).raised)
    ELSE dcel_trace_loop(m, around, key, start_edge_key,
                         next_key(m.edge_nodes[start_edge_key], around, key).ret,
                         <<start_edge_key>>)

\* start_edge_key or next(<edges>): next() on an exhausted generator raises
\* StopIteration, which a generator turns into RuntimeError.
dcel_trace(m, around, key, start_edge_key, edges) ==
    IF start_edge_key # None
    THEN dcel_trace_from(m, around, key, start_edge_key)
    ELSE IF Len(edges) = 0 THEN EdgeRun(<<>>, "RuntimeError")
    ELSE dcel_trace_from(m, around, key, edges[1])

dcel_vertex_trace(m, vertex_key, start_edge_key) ==
    dcel_trace(m, "vertex", vertex_key, start_edge_key,
               vertex_edges(m, vertex_key))

dcel_face_trace(m, face_key, start_edge_key) ==
    dcel_trace(m, "face", face_key, start_edge_key,
               dcel_face_edges(m, face_key))

\* insert_edge(mesh, vertex_1_key, edge_1_key, vertex_2_key, edge_2_key):
\* the two nodes are looked up (KeyError), then the next key of the first
\* corner is read.  The node has no slot of that name whichever of the two
\* names is read, so the call ends there with AttributeError; the
\* statements after it (the face lookup, create_edge, the two branches) are
\* not reached on any mesh and are not modelled.
dcel_insert_edge(m, vertex_1_key, edge_1_key, vertex_2_key, edge_2_key) ==
    IF edge_1_key \notin DOMAIN m.edge_nodes
       \/ edge_2_key \notin DOMAIN m.edge_nodes
    THEN Outcome(m, <<>>, "KeyError")
    ELSE Outcome(m, <<>>,
                 vertex_next_key(m.edge_nodes[edge_1_key], vertex_1_key).raised)

\* delete_edge(mesh, old_edge): the node is looked up (KeyError), then
\* list(vertex_trace(mesh, old_edge_node.vertex_1_key)) is built.  The trace
\* starts at an edge of that vertex, old_edge at the latest, and ends with
\* AttributeError on its first next-key read; the statements after it are
\* not reached on any mesh and are not modelled.
dcel_delete_edge(m, old_edge) ==
    IF old_edge \notin DOMAIN m.edge_nodes
    THEN Outcome(m, <<>>, "KeyError")
    ELSE Outcome(m, <<>>,
                 dcel_vertex_trace(m, m.edge_nodes[old_edge].vertex_1_key,
                                   None).raised)

\* dcel/primitives.py, triangle(): three vertices and two faces are made
\* on a new mesh, then mesh.create_edge(v_1, v_2) is called with two of the
\* six arguments the method takes: TypeError, and the mesh is dropped.
dcel_triangle == Outcome(EmptyDcelMesh, <<>>, "TypeError")

\* ----------------------------------------------------------------- actions
\* last: the latest call, its arguments, what it returned and the exception
\* it raised.  Nothing in the repository catches an exception, so a call
\* that raises is the last one.
Call(op, args, ret, raised) ==
    [op |-> op, args |-> args, ret |-> ret, raised |-> raised]

SetFields(m) ==
    /\ vertex_keys' = m.vertex_keys
    /\ face_keys' = m.face_keys
    /\ edge_keys' = m.edge_keys
    /\ vertex_coordinates' = m.vertex_coordinates
    /\ face_vertices' = m.face_vertices
    /\ vertex_faces' = m.vertex_faces

SetMesh(m) ==
    /\ UNCHANGED <<store_counter, calls, dcel_mesh>>
    /\ SetFields(m)

Init ==
    /\ vertex_keys = EmptyMesh.vertex_keys
    /\ face_keys = EmptyMesh.face_keys
    /\ edge_keys = EmptyMesh.edge_keys
    /\ vertex_coordinates = EmptyMesh.vertex_coordinates
    /\ face_vertices = EmptyMesh.face_vertices
    /\ vertex_faces = EmptyMesh.vertex_faces
    /\ last = Call("init", <<>>, <<>>, "none")
    /\ store_counter = <<>>
    /\ calls = <<>>
    /\ dcel_mesh = EmptyDcelMesh

Running == last.raised = "none"

\* The (face, vertex) pairs a caller can get a corner for.
Corners(m) ==
    {c \in (DOMAIN m.face_vertices) \X (DOMAIN m.vertex_faces) :
        IsCornerOf(m, c[1], c[2])}

CreatePointSphere(position) ==
    /\ Running
    /\ Len(vertex_keys) < MaxVertices
    /\ Len(face_keys) < MaxFaceKeys
    /\ LET r == create_point_sphere(Mesh, position)
       IN  /\ SetMesh(r.mesh)
           /\ last' = Call("create_point_sphere", <<position>>, r.ret,
                           r.raised)

InsertEdge(c1, c2) ==
    /\ Running
    /\ c1[2] # c2[2]
    /\ Len(face_keys) + (IF c1[1] = c2[1] THEN 2 ELSE 1) <= MaxFaceKeys
    /\ LET r == insert_edge(Mesh,
                            corner_from_face_vertex(Mesh, c1[1], c1[2]),
                            corner_from_face_vertex(Mesh, c2[1], c2[2]))
       IN  /\ SetMesh(r.mesh)
           /\ last' = Call("insert_edge", <<c1, c2>>, r.ret, r.raised)

DeleteEdge(c1, c2) ==
    /\ Running
    /\ c1[2] # c2[2]
    /\ {c1[2], c2[2]} \in edge_keys
    /\ Len(face_keys) + (IF c1[1] = c2[1] THEN 2 ELSE 1) <= MaxFaceKeys
    /\ LET r == delete_edge(Mesh,
                            corner_from_face_vertex(Mesh, c1[1], c1[2]),
                            corner_from_face_vertex(Mesh, c2[1], c2[2]))
       IN  /\ SetMesh(r.mesh)
           /\ last' = Call("delete_edge", <<c1, c2>>, r.ret, r.raised)

ConstructMesh(input) ==
    /\ last.op = "init"
    /\ LET r == construct_mesh(input.points, input.faces)
       IN  /\ SetMesh(r.mesh)
           /\ last' = Call("construct_mesh", <<input>>, r.ret, r.raised)

\* Any call the operators accept: corners of live faces, distinct endpoints.
Next ==
    \/ \E position \in Points : CreatePointSphere(position)
    \/ \E c1 \in Corners(Mesh), c2 \in Corners(Mesh) : InsertEdge(c1, c2)
    \/ \E c1 \in Corners(Mesh), c2 \in Corners(Mesh) : DeleteEdge(c1, c2)
    \/ \E input \in ConstructInputs : ConstructMesh(input)

Spec == Init /\ [][Next]_vars

\* The calls the operators' contract allows: insert_edge only between
\* vertices that no edge joins yet, delete_edge only with each corner on a
\* side of the edge.
Directed(m, face_key, a, b) ==
    Has(pairs(m.face_vertices[face_key]), <<a, b>>)

OnSides(m, c1, c2) ==
    \/ Directed(m, c1[1], c1[2], c2[2]) /\ Directed(m, c2[1], c2[2], c1[2])
    \/ Directed(m, c1[1], c2[2], c1[2]) /\ Directed(m, c2[1], c1[2], c2[2])

ContractNext ==
    \/ \E position \in Points : CreatePointSphere(position)
    \/ \E c1 \in Corners(Mesh), c2 \in Corners(Mesh) :
          /\ {c1[2], c2[2]} \notin edge_keys
          /\ InsertEdge(c1, c2)
    \/ \E c1 \in Corners(Mesh), c2 \in Corners(Mesh) :
          /\ OnSides(Mesh, c1, c2)
          /\ DeleteEdge(c1, c2)
    \/ \E input \in ConstructInputs : ConstructMesh(input)

ContractSpec == Init /\ [][ContractNext]_vars

\* --------------------------------------------------- calls off the contract
\* insert_edge with two corners of one vertex.
InsertSelfLoop(c1, c2) ==
    /\ Running
    /\ c1[2] = c2[2]
    /\ Len(face_keys) + (IF c1[1] = c2[1] THEN 2 ELSE 1) <= MaxFaceKeys
    /\ LET r == insert_edge(Mesh,
                            corner_from_face_vertex(Mesh, c1[1], c1[2]),
                            corner_from_face_vertex(Mesh, c2[1], c2[2]))
       IN  /\ SetMesh(r.mesh)
           /\ last' = Call("insert_edge", <<c1, c2>>, r.ret, r.raised)

\* delete_edge with two corners whose vertices no recorded edge joins.
DeleteUnrecordedEdge(c1, c2) ==
    /\ Running
    /\ {c1[2], c2[2]} \notin edge_keys
    /\ Len(face_keys) + (IF c1[1] = c2[1] THEN 2 ELSE 1) <= MaxFaceKeys
    /\ LET r == delete_edge(Mesh,
                            corner_from_face_vertex(Mesh, c1[1], c1[2]),
                            corner_from_face_vertex(Mesh, c2[1], c2[2]))
       IN  /\ SetMesh(r.mesh)
           /\ last' = Call("delete_edge", <<c1, c2>>, r.ret, r.raised)

\* The calls of ContractNext and the two calls the contract forbids.
MisuseNext ==
    \/ \E position \in Points : CreatePointSphere(position)
    \/ \E c1 \in Corners(Mesh), c2 \in Corners(Mesh) :
          /\ {c1[2], c2[2]} \notin edge_keys
          /\ InsertEdge(c1, c2)
    \/ \E c1 \in Corners(Mesh), c2 \in Corners(Mesh) :
          /\ OnSides(Mesh, c1, c2)
          /\ DeleteEdge(c1, c2)
    \/ \E c1 \in Corners(Mesh), c2 \in Corners(Mesh) : InsertSelfLoop(c1, c2)
    \/ \E c1 \in Corners(Mesh), c2 \in Corners(Mesh) :
          DeleteUnrecordedEdge(c1, c2)

MisuseSpec == Init /\ [][MisuseNext]_vars

\* ------------------------------------------------------ subdivision calls
\* A caller builds a two-faced polygon the way triangle() builds the one
\* with 3 vertices, on a DLFLMesh: the point-spheres first...
PolygonPoint ==
    /\ last.op \in {"init", "polygon_point"}
    /\ Len(vertex_keys) < MaxPolygon
    /\ LET r == create_point_sphere(Mesh, "p")
       IN  /\ SetMesh(r.mesh)
           /\ last' = Call("polygon_point", <<>>, r.ret, r.raised)

\* ... then an edge from the first point-sphere to the second, and from
\* the corner of each vertex on the face the previous insertion returned
\* to the next point-sphere (the face of vertex v is still face v) ...
PolygonEdge ==
    /\ Len(vertex_keys) >= 2
    /\ \/ last.op = "polygon_point"
       \/ last.op = "polygon_edge" /\ last.args[1] < Len(vertex_keys)
    /\ LET vertex_key == IF last.op = "polygon_point" THEN 1 ELSE last.args[1]
           face_key == IF last.op = "polygon_point" THEN 1 ELSE last.ret[1]
           r == insert_edge(
                    Mesh,
                    corner_from_face_vertex(Mesh, face_key, vertex_key),
                    corner_from_face_vertex(Mesh, vertex_key + 1,
                                            vertex_key + 1))
       IN  /\ SetMesh(r.mesh)
           /\ last' = Call("polygon_edge", <<vertex_key + 1>>, r.ret, r.raised)

\* ... and the closing edge from the last vertex to the first, both on the
\* face the last insertion returned.
PolygonClose ==
    /\ last.op = "polygon_edge"
    /\ last.args[1] = Len(vertex_keys)
    /\ LET r == insert_edge(
                    Mesh,
                    corner_from_face_vertex(Mesh, last.ret[1], last.args[1]),
                    corner_from_face_vertex(Mesh, last.ret[1], 1))
       IN  /\ SetMesh(r.mesh)
           /\ last' = Call("polygon", <<last.args[1]>>, r.ret, r.raised)

TriangulateFace(face_key) ==
    /\ Running
    /\ last.op \in {"polygon", "triangulate_face"}
    /\ Len(vertex_keys) < MaxSubdividedVertices
    /\ LET r == triangulate_face(Mesh, face_key)
       IN  /\ SetMesh(r.mesh)
           /\ last' = Call("triangulate_face", <<face_key>>, r.ret, r.raised)

\* subdivide_edge on an edge of the polygon, or of the chain before it is
\* closed, with each corner on a side of the edge.
SubdivideEdge(c1, c2) ==
    /\ Running
    /\ last.op \in {"polygon_edge", "polygon", "subdivide_edge"}
    /\ Len(vertex_keys) < MaxSubdividedVertices
    /\ c1[2] # c2[2]
    /\ {c1[2], c2[2]} \in edge_keys
    /\ OnSides(Mesh, c1, c2)
    /\ LET r == subdivide_edge(Mesh,
                               corner_from_face_vertex(Mesh, c1[1], c1[2]),
                               corner_from_face_vertex(Mesh, c2[1], c2[2]))
       IN  /\ SetMesh(r.mesh)
           /\ last' = Call("subdivide_edge", <<c1, c2>>, r.ret, r.raised)

\* insert_edge between two corners of one face of the closed polygon.
InsertEdgeInFace(c1, c2) ==
    /\ Running
    /\ last.op = "polygon"
    /\ c1[1] = c2[1]
    /\ c1[2] # c2[2]
    /\ LET r == insert_edge(Mesh,
                            corner_from_face_vertex(Mesh, c1[1], c1[2]),
                            corner_from_face_vertex(Mesh, c2[1], c2[2]))
       IN  /\ SetMesh(r.mesh)
           /\ last' = Call("insert_edge", <<c1, c2>>, r.ret, r.raised)

SubdivisionNext ==
    \/ PolygonPoint
    \/ PolygonEdge
    \/ PolygonClose
    \/ \E face_key \in DOMAIN face_vertices : TriangulateFace(face_key)
    \/ \E c1 \in Corners(Mesh), c2 \in Corners(Mesh) : SubdivideEdge(c1, c2)
    \/ \E c1 \in Corners(Mesh), c2 \in Corners(Mesh) : InsertEdgeInFace(c1, c2)

SubdivisionSpec == Init /\ [][SubdivisionNext]_vars

\* ---------------------------------------------------------- key store calls
\* A KeyStore on its own: store_counter is its _counter, calls the calls
\* made on it so far.  delete() has no check and raises nothing.
KeyStoreCall(op, key) == [op |-> op, key |-> key]

KeyStoreNew ==
    /\ Len(calls) < MaxCalls
    /\ LET n == keystore_new(store_counter)
       IN  /\ store_counter' = n.counter
           /\ calls' = Append(calls, KeyStoreCall("new", n.key))
           /\ last' = Call("new", <<>>, <<n.key>>, "none")
    /\ UNCHANGED <<vertex_keys, face_keys, edge_keys, vertex_coordinates,
                   face_vertices, vertex_faces, dcel_mesh>>

KeyStoreDelete(key) ==
    /\ Len(calls) < MaxCalls
    /\ store_counter' = keystore_delete(store_counter, key)
    /\ calls' = Append(calls, KeyStoreCall("delete", key))
    /\ last' = Call("delete", <<key>>, <<>>, "none")
    /\ UNCHANGED <<vertex_keys, face_keys, edge_keys, vertex_coordinates,
                   face_vertices, vertex_faces, dcel_mesh>>

KeyStoreNext ==
    \/ KeyStoreNew
    \/ \E key \in 1..MaxKey : KeyStoreDelete(key)

KeyStoreSpec == Init /\ [][KeyStoreNext]_vars

\* (vertex, edge) is a corner of the DCEL mesh: the edge has a node and the
\* vertex is one of its endpoints.
DcelCorner(m, vertex_key, edge_key) ==
    /\ edge_key \in DOMAIN m.edge_nodes
    /\ vertex_key \in {m.edge_nodes[edge_key].vertex_1_key,
                       m.edge_nodes[edge_key].vertex_2_key}

\* The face of the corner (v, e): e's face_1 if v is e's first endpoint,
\* e's face_2 otherwise.
DcelCornerFace(m, vertex_key, edge_key) ==
    IF m.edge_nodes[edge_key].vertex_1_key = vertex_key
    THEN m.edge_nodes[edge_key].face_1_key
    ELSE m.edge_nodes[edge_key].face_2_key

\* --------------------------------------------------------------- dcel calls
\* A call on the DCEL mesh leaves the DLFL mesh and the key store alone.
SetDcelMesh(m) ==
    /\ dcel_mesh' = m
    /\ UNCHANGED <<vertex_keys, face_keys, edge_keys, vertex_coordinates,
                   face_vertices, vertex_faces, store_counter, calls>>

\* A caller builds the two-faced polygon that triangle() lists for 3
\* vertices and square() for 4, with the methods the mesh has: the vertices
\* first ...
DcelCreateVertex ==
    /\ Running
    /\ Len(dcel_mesh.vertex_keys) < MaxPolygon
    /\ Len(dcel_mesh.face_keys) = 0
    /\ LET r == dcel_create_vertex(dcel_mesh, "p")
       IN  /\ SetDcelMesh(r.mesh)
           /\ last' = Call("create_vertex", <<"p">>, <<r.key>>, "none")

\* ... then the two faces ...
DcelCreateFace ==
    /\ Running
    /\ Len(dcel_mesh.vertex_keys) >= 3
    /\ Len(dcel_mesh.face_keys) < 2
    /\ LET r == dcel_create_face(dcel_mesh)
       IN  /\ SetDcelMesh(r.mesh)
           /\ last' = Call("create_face", <<>>, <<r.key>>, "none")

\* ... then, with the six-argument create_edge, the node of the edge from
\* each vertex to the next one around the polygon: face 1 and face 2 on its
\* sides, the previous and the next edge of the polygon as its two edges.
DcelCreateEdge ==
    /\ Running
    /\ Len(dcel_mesh.face_keys) = 2
    /\ Len(dcel_mesh.edge_keys) < Len(dcel_mesh.vertex_keys)
    /\ LET n == Len(dcel_mesh.vertex_keys)
           i == Len(dcel_mesh.edge_keys) + 1
           args == <<i, (i % n) + 1, 1, 2, ((i + n - 2) % n) + 1, (i % n) + 1>>
           r == dcel_create_edge(dcel_mesh, args[1], args[2], args[3],
                                 args[4], args[5], args[6])
       IN  /\ SetDcelMesh(r.mesh)
           /\ last' = Call("create_edge", args, <<r.key>>, "none")

\* The polygon is complete: every vertex has the node of its edge.
DcelPolygonBuilt(m) ==
    /\ Len(m.face_keys) = 2
    /\ Len(m.edge_keys) = Len(m.vertex_keys)

DcelInsertEdge(vertex_1_key, edge_1_key, vertex_2_key, edge_2_key) ==
    /\ Running
    /\ LET r == dcel_insert_edge(dcel_mesh, vertex_1_key, edge_1_key,
                                 vertex_2_key, edge_2_key)
       IN  /\ SetDcelMesh(r.mesh)
           /\ last' = Call("insert_edge",
                           <<vertex_1_key, edge_1_key, vertex_2_key,
                             edge_2_key>>, r.ret, r.raised)

DcelDeleteEdge(old_edge) ==
    /\ Running
    /\ LET r == dcel_delete_edge(dcel_mesh, old_edge)
       IN  /\ SetDcelMesh(r.mesh)
           /\ last' = Call("delete_edge", <<old_edge>>, r.ret, r.raised)

\* primitives.triangle(): the mesh it works on is its own; nothing is
\* returned.
DcelTriangle ==
    /\ last.op = "init"
    /\ SetDcelMesh(dcel_mesh)
    /\ last' = Call("triangle", <<>>, dcel_triangle.ret, dcel_triangle.raised)

\* The vertex keys and the edge keys of the polygon being built.
DcelKeys == 1..Len(dcel_mesh.vertex_keys)

DcelNext ==
    \/ DcelCreateVertex
    \/ DcelCreateFace
    \/ DcelCreateEdge
    \/ \E vertex_1_key \in DcelKeys, edge_1_key \in DcelKeys,
          vertex_2_key \in DcelKeys, edge_2_key \in DcelKeys :
          DcelInsertEdge(vertex_1_key, edge_1_key, vertex_2_key, edge_2_key)
    \/ \E old_edge \in DcelKeys : DcelDeleteEdge(old_edge)
    \/ DcelTriangle

DcelSpec == Init /\ [][DcelNext]_vars

\* ---------------------------------------------------- calls on both meshes
\* A caller builds the polygon on a DLFL mesh, then the same polygon on a
\* DCEL mesh, and gives both meshes the same operator call.  The corner
\* (face, vertex) of the DLFL mesh and the corner (vertex, edge) of the DCEL
\* mesh are at the same vertex; the two DLFL corners are on one face exactly
\* when the two DCEL corners are.
CorrespondingCorners(c1, e1, c2, e2) ==
    /\ c1[2] # c2[2]
    /\ DcelCorner(dcel_mesh, c1[2], e1)
    /\ DcelCorner(dcel_mesh, c2[2], e2)
    /\ (c1[1] = c2[1])
           <=> (DcelCornerFace(dcel_mesh, c1[2], e1)
                    = DcelCornerFace(dcel_mesh, c2[2], e2))

\* The DLFL call first, the DCEL call if it returned.
BothCalls(op, args, r, d) ==
    /\ SetFields(r.mesh)
    /\ dcel_mesh' = (IF r.raised = "none" THEN d.mesh ELSE dcel_mesh)
    /\ last' = Call(op, args, r.ret,
                    IF r.raised = "none" THEN d.raised ELSE r.raised)
    /\ UNCHANGED <<store_counter, calls>>

BothInsertEdge(c1, e1, c2, e2) ==
    /\ Running
    /\ last.op = "create_edge"
    /\ DcelPolygonBuilt(dcel_mesh)
    /\ CorrespondingCorners(c1, e1, c2, e2)
    /\ BothCalls("insert_edge", <<c1, e1, c2, e2>>,
                 insert_edge(Mesh,
                             corner_from_face_vertex(Mesh, c1[1], c1[2]),
                             corner_from_face_vertex(Mesh, c2[1], c2[2])),
                 dcel_insert_edge(dcel_mesh, c1[2], e1, c2[2], e2))

\* delete_edge of an edge of the polygon: the DLFL corners are on its two
\* sides, the DCEL edge has the same two endpoints.
BothDeleteEdge(c1, c2, old_edge) ==
    /\ Running
    /\ last.op = "create_edge"
    /\ DcelPolygonBuilt(dcel_mesh)
    /\ c1[2] # c2[2]
    /\ OnSides(Mesh, c1, c2)
    /\ DcelCorner(dcel_mesh, c1[2], old_edge)
    /\ DcelCorner(dcel_mesh, c2[2], old_edge)
    /\ BothCalls("delete_edge", <<c1, c2, old_edge>>,
                 delete_edge(Mesh,
                             corner_from_face_vertex(Mesh, c1[1], c1[2]),
                             corner_from_face_vertex(Mesh, c2[1], c2[2])),
                 dcel_delete_edge(dcel_mesh, old_edge))

EncodingsNext ==
    \/ PolygonPoint
    \/ PolygonEdge
    \/ PolygonClose
    \/ /\ last.op \in {"polygon", "create_vertex"}
       /\ Len(dcel_mesh.vertex_keys) < Len(vertex_keys)
       /\ DcelCreateVertex
    \/ /\ Len(dcel_mesh.vertex_keys) = Len(vertex_keys)
       /\ DcelCreateFace
    \/ DcelCreateEdge
    \/ \E c1 \in Corners(Mesh), c2 \in Corners(Mesh),
          e1 \in DcelKeys, e2 \in DcelKeys : BothInsertEdge(c1, e1, c2, e2)
    \/ \E c1 \in Corners(Mesh), c2 \in Corners(Mesh), old_edge \in DcelKeys :
          BothDeleteEdge(c1, c2, old_edge)

EncodingsSpec == Init /\ [][EncodingsNext]_vars

\* ------------------------------------------------------------------ claims
LiveFaces(m) == LiveKeys(m.face_keys)

LiveVertices(m) == LiveKeys(m.vertex_keys)

\* The number of times a is immediately followed by b, over the boundaries
\* of all live faces read cyclically.
SideCount(m, a, b) ==
    Cardinality({s \in UNION {{<<f, i>> : i \in DOMAIN m.face_vertices[f]}
                                : f \in LiveFaces(m) \cap DOMAIN m.face_vertices} :
                   pairs(m.face_vertices[s[1]])[s[2]] = <<a, b>>})

\* C1: every recorded edge {a, b}, a # b, borders exactly two face sides: a is
\* immediately followed by b exactly once and b by a exactly once over all
\* live face boundaries.
C1_EdgeHasTwoSides ==
    \A e \in edge_keys :
        \A a \in e, b \in e :
            a # b => SideCount(Mesh, a, b) = 1 /\ SideCount(Mesh, b, a) = 1

\* C2: for every live vertex v, every run of vertex_trace(v) returns and
\* yields exactly one corner per face of v's rotation set, each with vertex
\* v.
C2_VertexTraceCloses ==
    \A v \in LiveVertices(Mesh) :
        \A run \in vertex_trace(Mesh, v) :
            /\ run.raised = "none"
            /\ Len(run.corners) = Cardinality(vertex_faces[v])
            /\ {run.corners[i].face_key : i \in DOMAIN run.corners}
                   = vertex_faces[v]
            /\ \A i \in DOMAIN run.corners : run.corners[i].vertex_key = v

\* The live faces that have a boundary.
BoundedFaces(m) == LiveFaces(m) \cap DOMAIN m.face_vertices

Occurrences(list_, item) == Cardinality({i \in DOMAIN list_ : list_[i] = item})

TraceVertices(m, f) ==
    [i \in DOMAIN face_trace(m, f) |-> face_trace(m, f)[i].vertex_key]

\* C3 as claimed: face_trace(f) yields len(boundary(f)) corners, all with
\* face f, and no vertex is yielded by two corners of the same trace.
C3_FaceTraceVisitsEachVertexOnce ==
    \A f \in BoundedFaces(Mesh) :
        LET t == face_trace(Mesh, f)
        IN  /\ Len(t) = Len(face_vertices[f])
            /\ \A i \in DOMAIN t : t[i].face_key = f
            /\ \A v \in Range(face_vertices[f]) :
                   Occurrences(TraceVertices(Mesh, f), v) = 1

\* C3 as amended: face_trace(f) yields len(boundary(f)) corners, all with
\* face f, and yields each vertex as many times as it occurs on f's
\* boundary.
C3_FaceTraceOneCornerPerOccurrence ==
    \A f \in BoundedFaces(Mesh) :
        LET t == face_trace(Mesh, f)
        IN  /\ Len(t) = Len(face_vertices[f])
            /\ \A i \in DOMAIN t : t[i].face_key = f
            /\ \A v \in DOMAIN vertex_faces :
                   Occurrences(TraceVertices(Mesh, f), v)
                       = Occurrences(face_vertices[f], v)

\* A live face whose boundary repeats a vertex is traced.
C3_Witness ==
    /\ Running
    /\ \E f \in BoundedFaces(Mesh) :
           /\ Len(face_vertices[f]) > Cardinality(Range(face_vertices[f]))
           /\ Len(face_trace(Mesh, f)) = Len(face_vertices[f])

Rotations(list_) ==
    {list_} \cup {circulated_to(list_, i) : i \in 0..(Len(list_) - 1)}

\* The number of live faces whose boundary is a rotation of list_.
BoundaryCount(m, list_) ==
    Cardinality({f \in BoundedFaces(m) : m.face_vertices[f] \in Rotations(list_)})

\* Same live vertex count, same live face count, same multiset of face
\* boundaries up to rotation.
SameTopology(m1, m2) ==
    /\ Cardinality(LiveVertices(m1)) = Cardinality(LiveVertices(m2))
    /\ Cardinality(LiveFaces(m1)) = Cardinality(LiveFaces(m2))
    /\ \A f \in BoundedFaces(m1) :
           BoundaryCount(m1, m1.face_vertices[f])
               = BoundaryCount(m2, m1.face_vertices[f])
    /\ \A f \in BoundedFaces(m2) :
           BoundaryCount(m1, m2.face_vertices[f])
               = BoundaryCount(m2, m2.face_vertices[f])

\* insert_edge(c1, c2), then delete_edge of the new edge with the corners
\* recomputed on the returned faces.
InsertThenDelete(m, c1, c2) ==
    LET ins == insert_edge(m, corner_from_face_vertex(m, c1[1], c1[2]),
                              corner_from_face_vertex(m, c2[1], c2[2]))
    IN  delete_edge(ins.mesh,
                    corner_from_face_vertex(ins.mesh, ins.ret[1], c1[2]),
                    corner_from_face_vertex(ins.mesh, ins.ret[2], c2[2]))

\* C4: for any two corners with distinct vertices that no edge joins,
\* insert_edge followed by delete_edge of the new edge restores the vertex
\* count, the face count and the multiset of boundaries up to rotation.
C4_InsertThenDeleteRestores ==
    Running =>
        \A c1 \in Corners(Mesh), c2 \in Corners(Mesh) :
            (c1[2] # c2[2] /\ {c1[2], c2[2]} \notin edge_keys) =>
                /\ InsertThenDelete(Mesh, c1, c2).raised = "none"
                /\ SameTopology(Mesh, InsertThenDelete(Mesh, c1, c2).mesh)

RECURSIVE SumOfLengths(_, _)
SumOfLengths(m, fs) ==
    IF fs = {} THEN 0
    ELSE LET f == CHOOSE g \in fs : TRUE
         IN  Len(m.face_vertices[f]) + SumOfLengths(m, fs \ {f})

\* The total boundary-vertex count: the sum of the boundary lengths of the
\* live faces.
BoundaryTotal(m) == SumOfLengths(m, BoundedFaces(m))

\* The step is a call of insert_edge that returned, on two corners of one
\* face (cofacial) or of two faces.
InsertStep(cofacial) ==
    /\ last'.op = "insert_edge"
    /\ last'.raised = "none"
    /\ (last'.args[1][1] = last'.args[2][1]) = cofacial

\* C5: cofacial insert_edge increases the live face count by exactly 1 and
\* the total boundary-vertex count by exactly 2.
C5_CofacialInsertCounts ==
    [][InsertStep(TRUE) =>
          /\ Cardinality(LiveFaces(Mesh')) = Cardinality(LiveFaces(Mesh)) + 1
          /\ BoundaryTotal(Mesh') = BoundaryTotal(Mesh) + 2]_vars

\* A cofacial insert_edge has just returned.
C5_Witness ==
    /\ last.op = "insert_edge"
    /\ last.raised = "none"
    /\ last.args[1][1] = last.args[2][1]
    /\ last.ret[1] # last.ret[2]

\* C6: non-cofacial insert_edge decreases the live face count by exactly 1:
\* both old faces stop being live, exactly one new face G becomes live and
\* (G, G) is returned.
C6_NonCofacialInsertFaces ==
    [][InsertStep(FALSE) =>
          LET f1 == last'.args[1][1]
              f2 == last'.args[2][1]
              G == last'.ret[1]
          IN  /\ last'.ret = <<G, G>>
              /\ {f1, f2} \subseteq LiveFaces(Mesh)
              /\ G \notin LiveFaces(Mesh)
              /\ LiveFaces(Mesh') = (LiveFaces(Mesh) \ {f1, f2}) \cup {G}
              /\ Cardinality(LiveFaces(Mesh'))
                     = Cardinality(LiveFaces(Mesh)) - 1]_vars

\* A non-cofacial insert_edge has just returned, on a mesh with other faces.
C6_Witness ==
    /\ last.op = "insert_edge"
    /\ last.raised = "none"
    /\ last.args[1][1] # last.args[2][1]
    /\ Cardinality(LiveFaces(Mesh)) > 1

\* 1 for a face that is not a point-sphere, 0 for a point-sphere.
NotPointSphere(list_) == IF Len(list_) > 1 THEN 1 ELSE 0

\* C7: non-cofacial insert_edge on F1 # F2 gives a boundary of length
\* |F1| + |F2| + (how many of F1, F2 are not point-spheres); between two
\* point-spheres it gives one face of length 2 holding each vertex once.
C7_NonCofacialInsertLength ==
    [][InsertStep(FALSE) =>
          LET F1 == face_vertices[last'.args[1][1]]
              F2 == face_vertices[last'.args[2][1]]
              G == face_vertices'[last'.ret[1]]
          IN  /\ Len(G) = Len(F1) + Len(F2)
                            + NotPointSphere(F1) + NotPointSphere(F2)
              /\ (Len(F1) = 1 /\ Len(F2) = 1) =>
                     /\ Len(G) = 2
                     /\ Occurrences(G, last'.args[1][2]) = 1
                     /\ Occurrences(G, last'.args[2][2]) = 1]_vars

\* insert_edge has just merged two point-spheres.
C7_Witness ==
    /\ last.op = "insert_edge"
    /\ last.raised = "none"
    /\ last.args[1][1] # last.args[2][1]
    /\ Len(face_vertices[last.ret[1]]) = 2

\* C8: create_point_sphere creates one new live vertex whose rotation set is
\* {new face} and one new live face whose boundary is [new vertex], returns
\* the corner (new vertex, new face), and changes no other boundary or
\* rotation set.
C8_CreatePointSphereFrame ==
    [][last'.op = "create_point_sphere" =>
          LET v == last'.ret.vertex_key
              f == last'.ret.face_key
          IN  /\ last'.raised = "none"
              /\ v \notin LiveVertices(Mesh) /\ v \notin DOMAIN vertex_faces
              /\ f \notin LiveFaces(Mesh) /\ f \notin DOMAIN face_vertices
              /\ LiveVertices(Mesh') = LiveVertices(Mesh) \cup {v}
              /\ LiveFaces(Mesh') = LiveFaces(Mesh) \cup {f}
              /\ DOMAIN vertex_faces' = DOMAIN vertex_faces \cup {v}
              /\ DOMAIN face_vertices' = DOMAIN face_vertices \cup {f}
              /\ vertex_faces'[v] = {f}
              /\ face_vertices'[f] = <<v>>
              /\ \A u \in DOMAIN vertex_faces : vertex_faces'[u] = vertex_faces[u]
              /\ \A g \in DOMAIN face_vertices :
                     face_vertices'[g] = face_vertices[g]]_vars

\* create_point_sphere has just returned on a mesh that already had faces
\* with edges.
C8_Witness ==
    /\ last.op = "create_point_sphere"
    /\ last.raised = "none"
    /\ \E g \in BoundedFaces(Mesh) : Len(face_vertices[g]) > 1

\* C9: vertex-face membership is consistent: every face of a live vertex's
\* rotation set is live and has the vertex on its boundary, and every vertex
\* of a live face's boundary is live and has the face in its rotation set.
C9_MembershipConsistent ==
    /\ \A v \in LiveVertices(Mesh) :
           \A f \in vertex_faces[v] :
               /\ f \in LiveFaces(Mesh)
               /\ f \in DOMAIN face_vertices
               /\ Has(face_vertices[f], v)
    /\ \A f \in LiveFaces(Mesh) :
           /\ f \in DOMAIN face_vertices
           /\ \A v \in Range(face_vertices[f]) :
                  /\ v \in LiveVertices(Mesh)
                  /\ f \in vertex_faces[v]

\* C10: construct_mesh on the tetrahedron input returns a mesh with 4 live
\* vertices and 4 live faces, every boundary of length 3 and a rotation of
\* an input face, every vertex rotation of length 3.
C10_TetrahedronConstructed ==
    (/\ last.op = "construct_mesh"
     /\ last.args[1].points = TetrahedronPoints
     /\ last.args[1].faces = TetrahedronFaces) =>
        /\ last.raised = "none"
        /\ Cardinality(LiveVertices(Mesh)) = 4
        /\ Cardinality(LiveFaces(Mesh)) = 4
        /\ \A f \in LiveFaces(Mesh) :
               /\ f \in DOMAIN face_vertices
               /\ Len(face_vertices[f]) = 3
               /\ \E i \in DOMAIN TetrahedronFaces :
                      face_vertices[f] \in
                          Rotations([j \in 1..3 |->
                                       TetrahedronFaces[i][j] + key_index_offset])
        /\ \A v \in LiveVertices(Mesh) : Cardinality(vertex_faces[v]) = 3

\* An input for construct_mesh with at least one point, whose faces index
\* the points.
ValidInput(input) ==
    /\ Len(input.points) > 0
    /\ \A i \in DOMAIN input.faces :
           \A j \in DOMAIN input.faces[i] :
               input.faces[i][j] \in 0..(Len(input.points) - 1)

\* C11: construct_mesh on faces that index its points ends in one of two
\* ways: it returns the mesh (the worklist is empty), or it raises the
\* failure of the stalled pass loop (NotImplementedError, line 112).
C11_ConstructReturnsOrAmbiguous ==
    (last.op = "construct_mesh" /\ ValidInput(last.args[1])) =>
        last.raised \in {"none", "NotImplementedError"}

\* The stall counter when construct_mesh ends.  num_null_passes is 0 from
\* line 45 and changes at line 129 only, at the end of a pass.  A pass
\* needs a non-empty queue, that is a face with an index, and an index
\* needs a point to get past vertices[index] at line 36; with a point the
\* call has already ended at line 21.  No call reaches line 129.
num_null_passes(points, faces) == 0

\* C12: construct_mesh raises a failure only when the stall counter (the
\* consecutive passes that inserted no edge) exceeds 2; before that an
\* unresolved tuple is put back without raising.
C12_FailureOnlyAfterStall ==
    (/\ last.op = "construct_mesh"
     /\ ValidInput(last.args[1])
     /\ last.raised # "none") =>
        num_null_passes(last.args[1].points, last.args[1].faces) > 2

\* The step is a call of triangulate_face on a live face whose boundary is
\* n >= 3 distinct vertices.
TriangulateStep ==
    /\ last'.op = "triangulate_face"
    /\ last'.args[1] \in BoundedFaces(Mesh)
    /\ Len(face_vertices[last'.args[1]]) >= 3
    /\ Cardinality(Range(face_vertices[last'.args[1]]))
           = Len(face_vertices[last'.args[1]])

\* C14: triangulate_face on a live face whose boundary is n >= 3 distinct
\* vertices returns (c, R): c is the one new live vertex, R is a set of
\* exactly n new live faces that replace the face, each with a boundary of
\* length 3 that contains c, so the live face count grows by n - 1.
C14_TriangulateFace ==
    [][TriangulateStep =>
          LET f == last'.args[1]
              n == Len(face_vertices[f])
              c == last'.ret[1]
              R == last'.ret[2]
          IN  /\ last'.raised = "none"
              /\ c \notin LiveVertices(Mesh)
              /\ LiveVertices(Mesh') = LiveVertices(Mesh) \cup {c}
              /\ Cardinality(LiveVertices(Mesh'))
                     = Cardinality(LiveVertices(Mesh)) + 1
              /\ Cardinality(R) = n
              /\ R \cap LiveFaces(Mesh) = {}
              /\ LiveFaces(Mesh') = (LiveFaces(Mesh) \ {f}) \cup R
              /\ Cardinality(LiveFaces(Mesh'))
                     = Cardinality(LiveFaces(Mesh)) + n - 1
              /\ \A g \in R :
                     /\ g \in DOMAIN face_vertices'
                     /\ Len(face_vertices'[g]) = 3
                     /\ Has(face_vertices'[g], c)]_vars

\* triangulate_face has just returned four faces: it was called on a
\* quadrilateral.
C14_Witness ==
    /\ last.op = "triangulate_face"
    /\ last.raised = "none"
    /\ Cardinality(last.ret[2]) = 4
    /\ \A g \in last.ret[2] :
           g \in LiveFaces(Mesh) /\ Len(face_vertices[g]) = 3

\* The step is a call of delete_edge on two corners whose vertices no
\* recorded edge joins.
UnrecordedDeleteStep ==
    /\ last'.op = "delete_edge"
    /\ {last'.args[1][2], last'.args[2][2]} \notin edge_keys

\* C15: delete_edge on an edge that is not in the edge record raises an
\* error and leaves the mesh as it was: key stores, edge record, boundaries
\* and rotation sets, for two corners of one face and of two faces.
C15_UnrecordedDeleteRejected ==
    [][UnrecordedDeleteStep =>
          /\ last'.raised # "none"
          /\ Mesh' = Mesh]_vars

\* The step is a call of insert_edge on two corners of one vertex.
SelfLoopStep ==
    /\ last'.op = "insert_edge"
    /\ last'.args[1][2] = last'.args[2][2]

\* C16: insert_edge on two corners of one vertex raises an error and leaves
\* the mesh as it was.
C16_SelfLoopRejected ==
    [][SelfLoopStep =>
          /\ last'.raised # "none"
          /\ Mesh' = Mesh]_vars

\* C17: every element of the edge record has two distinct endpoints.
C17_EdgesHaveTwoEndpoints ==
    \A edge_key \in edge_keys : Cardinality(edge_key) = 2

\* The identifiers new() returned in the first i calls on the key store.
ReturnedBy(cs, i) == {cs[j].key : j \in {k \in 1..i : cs[k].op = "new"}}

\* The identifiers that are live after the first i calls: returned by a
\* new() and not given to a delete() since.
RECURSIVE LiveAfter(_, _)
LiveAfter(cs, i) ==
    IF i = 0 THEN {}
    ELSE IF cs[i].op = "new"
    THEN LiveAfter(cs, i - 1) \cup {cs[i].key}
    ELSE LiveAfter(cs, i - 1) \ {cs[i].key}

\* Every delete() so far was given an identifier an earlier new() returned.
OnlyReturnedDeleted(cs) ==
    \A i \in DOMAIN cs :
        cs[i].op = "delete" => cs[i].key \in ReturnedBy(cs, i - 1)

\* Every delete() so far was given an identifier that was live.
OnlyLiveDeleted(cs) ==
    \A i \in DOMAIN cs :
        cs[i].op = "delete" => cs[i].key \in LiveAfter(cs, i - 1)

\* C18: after new() and delete() calls on identifiers that earlier new()
\* calls returned (live or already deleted), new() returns an identifier
\* that no earlier new() returned, and the store contains it right after.
C18_NewIsFresh ==
    [][(last'.op = "new" /\ OnlyReturnedDeleted(calls)) =>
          /\ last'.ret[1] \notin ReturnedBy(calls, Len(calls))
          /\ keystore_contains(store_counter', last'.ret[1])
          /\ last'.ret[1] \in LiveKeys(store_counter')]_vars

\* new() has just returned after an identifier was deleted twice.
C18_Witness ==
    /\ last.op = "new"
    /\ OnlyReturnedDeleted(calls)
    /\ \E i \in DOMAIN calls, j \in DOMAIN calls :
           /\ i < j
           /\ calls[i] = KeyStoreCall("delete", calls[i].key)
           /\ calls[j] = calls[i]
           /\ \A k \in i..j : calls[k].op = "delete"
    /\ keystore_contains(store_counter, last.ret[1])

\* C19: delete(k) for an identifier that is not live (never returned by
\* new(), or deleted already) raises an error and leaves the store as it
\* was.
C19_DeleteOfDeadKeyRejected ==
    [][(/\ last'.op = "delete"
        /\ last'.args[1] \notin LiveAfter(calls, Len(calls))) =>
          /\ last'.raised # "none"
          /\ store_counter' = store_counter]_vars

\* The live identifiers in the order new() returned them.
AllocationOrder(cs) ==
    LET IsLiveNew(c) == c.op = "new" /\ c.key \in LiveAfter(cs, Len(cs))
        news == SelectSeq(cs, IsLiveNew)
    IN  [i \in DOMAIN news |-> news[i].key]

\* C20: after new() calls and delete() calls on live identifiers,
\* iteration yields exactly the live identifiers, each once, in the order
\* new() returned them, and membership is true exactly for them.
C20_IterationInAllocationOrder ==
    OnlyLiveDeleted(calls) =>
        /\ keystore_iter(store_counter) = AllocationOrder(calls)
        /\ Range(keystore_iter(store_counter)) = LiveAfter(calls, Len(calls))
        /\ Cardinality(Range(keystore_iter(store_counter)))
               = Len(keystore_iter(store_counter))
        /\ \A key \in 1..(MaxCalls + MaxKey) :
               keystore_contains(store_counter, key)
                   <=> key \in LiveAfter(calls, Len(calls))

\* The store is iterated after a live identifier was deleted between two
\* that are still live.
C20_Witness ==
    /\ OnlyLiveDeleted(calls)
    /\ Len(keystore_iter(store_counter)) >= 2
    /\ \E key \in ReturnedBy(calls, Len(calls)) :
           /\ ~keystore_contains(store_counter, key)
           /\ keystore_iter(store_counter)[1] < key
           /\ key < keystore_iter(store_counter)[2]

\* C21: corner_from_face_vertex(f, v) for a live face f and a vertex key v
\* that is not on f's boundary raises an error and leaves the mesh as it
\* is.
C21_CornerOffBoundaryRejected ==
    \A f \in BoundedFaces(Mesh), v \in 1..(MaxVertices + 1) :
        ~Has(face_vertices[f], v) =>
            /\ corner_from_face_vertex_call(Mesh, f, v).raised # "none"
            /\ corner_from_face_vertex_call(Mesh, f, v).mesh = Mesh

\* A live vertex is off the boundary of a live face that has edges, and
\* the call for them raises ValueError.
C21_Witness ==
    /\ Running
    /\ \E f \in BoundedFaces(Mesh), v \in LiveVertices(Mesh) :
           /\ Len(face_vertices[f]) > 1
           /\ ~Has(face_vertices[f], v)
           /\ corner_from_face_vertex_call(Mesh, f, v).raised = "ValueError"

\* The step is a call of subdivide_edge on the two corners of a recorded
\* edge {v1, v2}, v1 # v2, each corner on one side of the edge, in a mesh
\* where every edge borders exactly two face sides.
SubdivideStep ==
    /\ last'.op = "subdivide_edge"
    /\ C1_EdgeHasTwoSides
    /\ last'.args[1][2] # last'.args[2][2]
    /\ {last'.args[1][2], last'.args[2][2]} \in edge_keys
    /\ OnSides(Mesh, last'.args[1], last'.args[2])

\* C22: subdivide_edge on an existing edge {v1, v2}, whether its two sides
\* lie on two different faces or on one face, completes without error and
\* leaves exactly one more live vertex m, the same number of live faces,
\* the edge {v1, v2} absent, the edges {v1, m} and {m, v2} present, and
\* every edge bordering exactly two face sides.
C22_SubdivideEdge ==
    [][SubdivideStep =>
          LET v1 == last'.args[1][2]
              v2 == last'.args[2][2]
          IN  /\ last'.raised = "none"
              /\ LET m == last'.ret[1]
                 IN  /\ m \notin LiveVertices(Mesh)
                     /\ LiveVertices(Mesh') = LiveVertices(Mesh) \cup {m}
                     /\ Cardinality(LiveFaces(Mesh'))
                            = Cardinality(LiveFaces(Mesh))
                     /\ {v1, v2} \notin edge_keys'
                     /\ {v1, m} \in edge_keys'
                     /\ {m, v2} \in edge_keys'
                     /\ \A e \in edge_keys' : \A a \in e, b \in e :
                            a # b => /\ SideCount(Mesh', a, b) = 1
                                     /\ SideCount(Mesh', b, a) = 1]_vars

\* C23: in every reachable mesh, faces with repeated vertices included,
\* every run of vertex_trace(v) ends, by closing at its start corner or by
\* raising an exception, after yielding at most 2 * (live face count)
\* corners.
C23_VertexTraceBounded ==
    \A v \in LiveVertices(Mesh) :
        \A run \in vertex_trace(Mesh, v) :
            /\ run.raised # "unbounded"
            /\ Len(run.corners) <= 2 * Cardinality(LiveFaces(Mesh))

\* A live face whose boundary has at least three vertices, all distinct.
SimpleFaces(m) ==
    {f \in BoundedFaces(m) :
        /\ Len(m.face_vertices[f]) >= 3
        /\ Cardinality(Range(m.face_vertices[f])) = Len(m.face_vertices[f])}

\* C24: on a face with at least three distinct boundary vertices,
\* corner_from_face_vertex(f, v) returns a corner whose two edges are
\* {predecessor(v), v} and {v, successor(v)}, two different edges.
C24_CornerEdgesArePredecessorAndSuccessor ==
    \A f \in SimpleFaces(Mesh) :
        \A v \in Range(face_vertices[f]) :
            LET c == corner_from_face_vertex_call(Mesh, f, v)
            IN  /\ c.raised = "none"
                /\ {c.ret.edge_1_key, c.ret.edge_2_key}
                       = {{previous_item(face_vertices[f], v), v},
                          {v, next_item(face_vertices[f], v)}}
                /\ c.ret.edge_1_key # c.ret.edge_2_key

\* Equality of two Corner values: the dataclass compares the four fields.
CornerEq(corner_1, corner_2) ==
    /\ corner_1.vertex_key = corner_2.vertex_key
    /\ corner_1.face_key = corner_2.face_key
    /\ corner_1.edge_1_key = corner_2.edge_1_key
    /\ corner_1.edge_2_key = corner_2.edge_2_key

\* C25: Corner equality depends only on (vertex, face): the corner
\* face_trace(f) yields for v equals corner_from_face_vertex(f, v), and
\* so do any two corners with the same vertex and face.
C25_CornerEqualityByVertexAndFace ==
    \A f \in BoundedFaces(Mesh) :
        \A i \in DOMAIN face_trace(Mesh, f) :
            LET traced == face_trace(Mesh, f)[i]
                looked_up == corner_from_face_vertex(Mesh, f, traced.vertex_key)
            IN  CornerEq(traced, looked_up)

\* The part of a boundary without repeated vertices that runs from the
\* successor of one vertex through another vertex.
Arc(list_, after, through) ==
    LET n == Len(list_)
        length == (index(list_, through) - index(list_, after)) % n
    IN  [k \in 1..length |-> list_[((index(list_, after) + k) % n) + 1]]

\* The step is a cofacial insert_edge that returned, between two different
\* vertices of a live face whose boundary repeats no vertex.
SimpleCofacialInsertStep ==
    /\ InsertStep(TRUE)
    /\ last'.args[1][2] # last'.args[2][2]
    /\ last'.args[1][1] \in BoundedFaces(Mesh)
    /\ Cardinality(Range(face_vertices[last'.args[1][1]]))
           = Len(face_vertices[last'.args[1][1]])

\* C26: a cofacial insert_edge between v1 # v2 on a face F without
\* repeated vertices returns two distinct new live faces whose boundaries
\* are F from the successor of v2 through v1 followed by v2, and F from the
\* successor of v1 through v2 followed by v1; F is no longer live, v1 and
\* v2 lie on both new faces and every other vertex of F on exactly one.
C26_CofacialInsertBoundaries ==
    [][SimpleCofacialInsertStep =>
          LET F == face_vertices[last'.args[1][1]]
              v1 == last'.args[1][2]
              v2 == last'.args[2][2]
              new_1 == last'.ret[1]
              new_2 == last'.ret[2]
          IN  /\ new_1 # new_2
              /\ {new_1, new_2} \cap LiveFaces(Mesh) = {}
              /\ {new_1, new_2} \subseteq BoundedFaces(Mesh')
              /\ last'.args[1][1] \notin LiveFaces(Mesh')
              /\ face_vertices'[new_1] = Append(Arc(F, v2, v1), v2)
              /\ face_vertices'[new_2] = Append(Arc(F, v1, v2), v1)
              /\ \A x \in Range(F) :
                     IF x \in {v1, v2}
                     THEN /\ Has(face_vertices'[new_1], x)
                          /\ Has(face_vertices'[new_2], x)
                     ELSE Has(face_vertices'[new_1], x)
                              # Has(face_vertices'[new_2], x)]_vars

\* A cofacial insert_edge has just split a face of at least three distinct
\* vertices between two different vertices.
C26_Witness ==
    /\ last.op = "insert_edge"
    /\ last.raised = "none"
    /\ last.args[1][1] = last.args[2][1]
    /\ last.args[1][2] # last.args[2][2]
    /\ last.ret[1] # last.ret[2]
    /\ {last.ret[1], last.ret[2]} \subseteq BoundedFaces(Mesh)
    /\ Len(face_vertices[last.ret[1]]) + Len(face_vertices[last.ret[2]]) >= 5
    /\ Range(face_vertices[last.ret[1]]) \cap Range(face_vertices[last.ret[2]])
           = {last.args[1][2], last.args[2][2]}
    /\ \A g \in {last.ret[1], last.ret[2]} :
           Cardinality(Range(face_vertices[g])) = Len(face_vertices[g])

\* L is a leaf of face F hanging from p: L occurs once on F, F is its only
\* face, its neighbours on F are both p and {p, L} is its only edge.
IsLeaf(m, F, p, L) ==
    /\ p # L
    /\ F \in BoundedFaces(m)
    /\ Occurrences(m.face_vertices[F], L) = 1
    /\ m.vertex_faces[L] = {F}
    /\ previous_item(m.face_vertices[F], L) = p
    /\ next_item(m.face_vertices[F], L) = p
    /\ {e \in m.edge_keys : L \in e} = {{L}, {p, L}}

\* The boundary of F without the leaf L and without the occurrence of p
\* that follows it.
WithoutLeaf(list_, L) ==
    IF Len(list_) = 2 THEN <<next_item(list_, L)>>
    ELSE SubSeq(circulated_to_item(list_, L), 2, Len(list_) - 1)

\* The step is a call of delete_edge on the two corners of the edge
\* {p, L} of a leaf L, in either order.
LeafDeleteStep ==
    /\ last'.op = "delete_edge"
    /\ last'.args[1][1] = last'.args[2][1]
    /\ \/ IsLeaf(Mesh, last'.args[1][1], last'.args[1][2], last'.args[2][2])
       \/ IsLeaf(Mesh, last'.args[1][1], last'.args[2][2], last'.args[1][2])

\* C27: delete_edge on the edge {p, L} of a leaf L of face F returns two
\* faces, one with boundary [L] and one holding the rest of F with one
\* occurrence of p removed; L stays live and its rotation set is the
\* point-sphere face alone, for either order of the corners.
C27_LeafDeleteLeavesPointSphere ==
    [][LeafDeleteStep =>
          LET F == last'.args[1][1]
              a == last'.args[1][2]
              b == last'.args[2][2]
              L == IF IsLeaf(Mesh, F, a, b) THEN b ELSE a
          IN  /\ last'.raised = "none"
              /\ \E leaf_face \in {last'.ret[1], last'.ret[2]} :
                 \E rest_face \in {last'.ret[1], last'.ret[2]} :
                     /\ leaf_face # rest_face
                     /\ {leaf_face, rest_face} \subseteq BoundedFaces(Mesh')
                     /\ face_vertices'[leaf_face] = <<L>>
                     /\ face_vertices'[rest_face]
                            \in Rotations(WithoutLeaf(face_vertices[F], L))
                     /\ L \in LiveVertices(Mesh')
                     /\ vertex_faces'[L] = {leaf_face}]_vars

\* The step is a call of delete_edge on a recorded edge {v1, v2} with one
\* side on the live face F1 of the first corner and the other on the live
\* face F2 of the second, F1 # F2.
SeparatingDeleteStep ==
    /\ last'.op = "delete_edge"
    /\ last'.args[1][1] # last'.args[2][1]
    /\ {last'.args[1][1], last'.args[2][1]} \subseteq BoundedFaces(Mesh)
    /\ last'.args[1][2] # last'.args[2][2]
    /\ {last'.args[1][2], last'.args[2][2]} \in edge_keys
    /\ OnSides(Mesh, last'.args[1], last'.args[2])

\* C28: delete_edge on an existing edge {v1, v2} that separates two
\* different faces F1 and F2 replaces them by one new live face G of length
\* |F1| + |F2| - 2 that contains every vertex of F1 and F2, returns (G, G),
\* decreases the live face count by 1 and removes exactly {v1, v2} from the
\* edge record.
C28_NonCofacialDeleteMerges ==
    [][SeparatingDeleteStep =>
          LET F1 == last'.args[1][1]
              F2 == last'.args[2][1]
              G == last'.ret[1]
          IN  /\ last'.raised = "none"
              /\ last'.ret = <<G, G>>
              /\ G \notin LiveFaces(Mesh)
              /\ LiveFaces(Mesh') = (LiveFaces(Mesh) \ {F1, F2}) \cup {G}
              /\ Cardinality(LiveFaces(Mesh'))
                     = Cardinality(LiveFaces(Mesh)) - 1
              /\ G \in DOMAIN face_vertices'
              /\ Len(face_vertices'[G])
                     = Len(face_vertices[F1]) + Len(face_vertices[F2]) - 2
              /\ Range(face_vertices'[G])
                     = Range(face_vertices[F1]) \cup Range(face_vertices[F2])
              /\ edge_keys' = edge_keys \ {{last'.args[1][2], last'.args[2][2]}}
              /\ edge_keys' # edge_keys]_vars

\* delete_edge has just merged two faces of at least three vertices each.
C28_Witness ==
    /\ last.op = "delete_edge"
    /\ last.raised = "none"
    /\ last.args[1][1] # last.args[2][1]
    /\ last.ret[1] = last.ret[2]
    /\ last.ret[1] \in BoundedFaces(Mesh)
    /\ Len(face_vertices[last.ret[1]]) >= 4
    /\ {last.args[1][2], last.args[2][2]} \notin edge_keys

\* a and b are cyclically adjacent on the boundary of some live face.
Adjacent(m, a, b) ==
    \E f \in BoundedFaces(m) : Directed(m, f, a, b) \/ Directed(m, f, b, a)

\* The edge record holds {a, b}, a # b, exactly when a and b are adjacent
\* on a live face boundary.
EdgeRecordIsAdjacency ==
    \A a \in LiveVertices(Mesh), b \in LiveVertices(Mesh) :
        a # b => ({a, b} \in edge_keys <=> Adjacent(Mesh, a, b))

\* An insert_edge that returned added {v1, v2} to the edge record and
\* nothing else; a delete_edge that returned removed {v1, v2} and nothing
\* else.
EdgeRecordStep ==
    /\ (last'.op = "insert_edge" /\ last'.raised = "none")
           => edge_keys' = edge_keys \cup {{last'.args[1][2], last'.args[2][2]}}
    /\ (last'.op = "delete_edge" /\ last'.raised = "none")
           => edge_keys' = edge_keys \ {{last'.args[1][2], last'.args[2][2]}}

\* C29: in every reachable state, for distinct vertices a and b, {a, b} is
\* in the edge record if and only if a and b are cyclically adjacent on
\* some live face boundary; insert_edge adds exactly {v1, v2} to the record
\* and delete_edge removes exactly {v1, v2}.
C29_EdgeRecordMatchesBoundaries ==
    [](EdgeRecordIsAdjacency) /\ [][EdgeRecordStep]_vars


\* C38: after any sequence of new() and delete() calls, delete() of an
\* identifier that is already deleted included, count() is the number of
\* identifiers for which membership is true, which is the number of
\* identifiers that iteration yields.
C38_CountIsNumberOfMembers ==
    OnlyReturnedDeleted(calls) =>
        /\ keystore_count(store_counter)
               = Cardinality({key \in 1..(MaxCalls + MaxKey) :
                                 keystore_contains(store_counter, key)})
        /\ keystore_count(store_counter) = Len(keystore_iter(store_counter))


\* A step that is insert_edge on the DCEL mesh between two corners of a
\* complete polygon, at distinct vertices.
DcelInsertStep ==
    /\ last'.op = "insert_edge"
    /\ Len(last'.args) = 4
    /\ DcelPolygonBuilt(dcel_mesh)
    /\ DcelCorner(dcel_mesh, last'.args[1], last'.args[2])
    /\ DcelCorner(dcel_mesh, last'.args[3], last'.args[4])
    /\ last'.args[1] # last'.args[3]

\* C34: DCEL insert_edge(v1, e1, v2, e2) takes the cofacial branch (two new
\* faces) exactly when the face of corner (v1, e1) is the face of corner
\* (v2, e2), each read from the corner's own edge node, and the
\* non-cofacial branch (one new face) otherwise.
C34_CofacialBranchByCornerFaces ==
    [][DcelInsertStep =>
          Len(dcel_mesh'.face_keys) - Len(dcel_mesh.face_keys)
              = (IF DcelCornerFace(dcel_mesh, last'.args[1], last'.args[2])
                      = DcelCornerFace(dcel_mesh, last'.args[3],
                                       last'.args[4])
                 THEN 2 ELSE 1)]_vars

\* C35: DCEL insert_edge makes a new edge node and links it into v1's
\* rotation right after e1 and into v2's rotation right after e2, as
\* vertex_trace reads them, and leaves the rotation of every other vertex
\* as it was.
C35_NewEdgeLinkedAfterCornerEdges ==
    [][DcelInsertStep =>
          LET new_edge_key == Len(dcel_mesh.edge_keys) + 1
              rotation_1 == dcel_vertex_trace(dcel_mesh', last'.args[1],
                                              last'.args[2])
              rotation_2 == dcel_vertex_trace(dcel_mesh', last'.args[3],
                                              last'.args[4])
          IN  /\ new_edge_key \in DOMAIN dcel_mesh'.edge_nodes
              /\ Len(rotation_1.edges) >= 2
              /\ rotation_1.edges[2] = new_edge_key
              /\ Len(rotation_2.edges) >= 2
              /\ rotation_2.edges[2] = new_edge_key
              /\ \A vertex_key \in DOMAIN dcel_mesh.vertex_coordinates
                                      \ {last'.args[1], last'.args[3]} :
                     dcel_vertex_trace(dcel_mesh', vertex_key, None)
                         = dcel_vertex_trace(dcel_mesh, vertex_key, None)
         ]_vars

\* C36: on a complete polygon, and on every mesh DCEL insert_edge and
\* delete_edge make of it, face_trace(f) returns for every live face f,
\* having yielded each edge on f's boundary once.
C36_FaceTraceYieldsBoundary ==
    DcelPolygonBuilt(dcel_mesh) =>
        \A face_key \in LiveKeys(dcel_mesh.face_keys) :
            LET run == dcel_face_trace(dcel_mesh, face_key, None)
            IN  /\ run.raised = "none"
                /\ Range(run.edges) = Range(dcel_face_edges(dcel_mesh, face_key))
                /\ Len(run.edges) = Cardinality(Range(run.edges))


\* The edges of a DLFL face: the unordered pairs of vertices that follow
\* each other around its boundary.
BoundaryEdges(m, face_key) ==
    {{p[1], p[2]} : p \in Range(pairs(m.face_vertices[face_key]))}

\* The endpoints of the edges a DCEL trace yielded.
TracedEdges(m, run) ==
    {{m.edge_nodes[edge_key].vertex_1_key, m.edge_nodes[edge_key].vertex_2_key}
       : edge_key \in Range(run.edges) \cap DOMAIN m.edge_nodes}

\* The DLFL mesh m and the DCEL mesh d hold the same manifold: as many live
\* faces, the same edges between two vertices, and every DCEL face traced
\* along the edges of a DLFL face's boundary.
SameManifold(m, d) ==
    /\ Cardinality(LiveFaces(m)) = Cardinality(LiveKeys(d.face_keys))
    /\ {edge_key \in m.edge_keys : Cardinality(edge_key) = 2}
           = {{d.edge_nodes[edge_key].vertex_1_key,
               d.edge_nodes[edge_key].vertex_2_key}
                 : edge_key \in DOMAIN d.edge_nodes}
    /\ \A face_key \in LiveKeys(d.face_keys) :
           /\ dcel_face_trace(d, face_key, None).raised = "none"
           /\ \E dlfl_face \in BoundedFaces(m) :
                  BoundaryEdges(m, dlfl_face)
                      = TracedEdges(d, dcel_face_trace(d, face_key, None))

\* C37: after the same insert_edge or delete_edge at corresponding corners
\* of the same polygon built in both encodings, the two meshes have the
\* same number of live faces, the same edges and the same face boundaries.
C37_EncodingsAgree ==
    [][(/\ last'.op \in {"insert_edge", "delete_edge"}
        /\ DcelPolygonBuilt(dcel_mesh)) =>
          /\ last'.raised = "none"
          /\ SameManifold(Mesh', dcel_mesh')]_vars

=============================================================================
